---- MODULE Spec2Model ----
(***************************************************************************)
(* Model of the scoring and conversation-state engine of MagnifyingMed:    *)
(*   scoring.py              BiasScorer (component scores, aggregation)    *)
(*   context_manager.py      ContextManager (context, history)             *)
(*   conversation_handler.py ConversationHandler (intent routing)          *)
(*                                                                         *)
(* Numbers that are Python floats in the source are exact rationals here,  *)
(* kept as reduced pairs <<numerator, denominator>> with a positive        *)
(* denominator.  Text is kept as TLA+ strings and searched with SubSeq,    *)
(* so that Python's substring test `k in s` is computed, not assumed.      *)
(***************************************************************************)
EXTENDS Integers, Sequences, FiniteSets, TLC

VARIABLES
    pc,                   \* "handler" in a conversation; in a scoring run "args", "built", "rejected", "scored"
    in_weights,           \* the weights argument handed to BiasScorer(...): << >> is None, <<t>> a table
    in_threshold,         \* the threshold argument: << >> is None, <<r>> a number
    in_findings,          \* <<dataset_analysis, subgroup_analysis, mitigation_analysis>> handed to compute_bias_score
    scorer,               \* the BiasScorer object: << >> before/without construction, else <<[weights, threshold]>>
    score_results,        \* the dict returned by compute_bias_score in a scoring run: << >> or <<r>>
    context_manager,      \* ConversationHandler.context_manager: [context, conversation_history]
    analysis_results,     \* ConversationHandler.analysis_results: << >> is None, else <<the dict>>
    last,                 \* the last call on the handler: its input, what it entered and called, what it returned
    metrics,              \* ConversationHandler.enable_metrics_tracking and whether session_start_time is set
    twin                  \* a second handler fed the same utterances, when two handlers are compared

vars == <<pc, in_weights, in_threshold, in_findings, scorer, score_results,
          context_manager, analysis_results, last, metrics, twin>>

scoring_vars == <<in_weights, in_threshold, in_findings, score_results>>
handler_vars == <<context_manager, analysis_results, last, metrics, twin>>

(***************************************************************************)
(* Bounds                                                                  *)
(***************************************************************************)
MaxCount == 3             \* largest dataset / study count the provider reports
MaxTurns == 2             \* most handle_message calls between two resets

(***************************************************************************)
(* Exact rational arithmetic standing for Python float arithmetic          *)
(***************************************************************************)
Abs(i) == IF i < 0 THEN -i ELSE i

RECURSIVE GCD(_, _)
GCD(a, b) == IF b = 0 THEN a ELSE GCD(b, a % b)

Rat(n, d) ==
    LET g == GCD(Abs(n), Abs(d))
        s == IF d < 0 THEN -1 ELSE 1
    IN  <<(s * n) \div g, (s * d) \div g>>

RInt(i) == <<i, 1>>
RAdd(a, b) == Rat(a[1] * b[2] + b[1] * a[2], a[2] * b[2])
RSub(a, b) == Rat(a[1] * b[2] - b[1] * a[2], a[2] * b[2])
RMul(a, b) == Rat(a[1] * b[1], a[2] * b[2])
RDiv(a, b) == Rat(a[1] * b[2], a[2] * b[1])
RLt(a, b) == a[1] * b[2] < b[1] * a[2]
RLe(a, b) == a[1] * b[2] <= b[1] * a[2]
RAbs(a) == <<Abs(a[1]), a[2]>>
RMin(a, b) == IF RLe(a, b) THEN a ELSE b

R0 == RInt(0)
R1 == RInt(1)

\* round(x, ndigits=3): the nearest multiple of 1/1000, a tie going to the even one
Round3(x) ==
    LET n   == 1000 * x[1]
        fl  == n \div x[2]
        rem == n - fl * x[2]
        k   == IF 2 * rem < x[2] THEN fl
               ELSE IF 2 * rem > x[2] THEN fl + 1
               ELSE IF fl % 2 = 0 THEN fl ELSE fl + 1
    IN  Rat(k, 1000)

(***************************************************************************)
(* Python dict access                                                      *)
(***************************************************************************)
EmptyDict == << >>

\* d.get(k, default)
Get(d, k, default) == IF k \in DOMAIN d THEN d[k] ELSE default

\* the dict holding exactly the keys of `keys` whose optional value in opt is present
MkDict(keys, opt) == [k \in {x \in keys : opt[x] # << >>} |-> opt[k][1]]

(***************************************************************************)
(* config.py                                                               *)
(***************************************************************************)
BIAS_SCORE_THRESHOLD == Rat(30, 100)
MIN_SOURCES_FOR_FLAG == 2
TARGET_DARK_SKIN_PROPORTION == Rat(25, 100)

\* the six dimensions in the order the breakdown dict literal declares them
Dimensions ==
    << "race_label_availability", "dark_skin_representation", "subgroup_metrics",
       "geographic_concentration", "fairness_method_coverage", "external_validation" >>

SCORE_WEIGHTS ==
    [ race_label_availability  |-> Rat(15, 100),
      dark_skin_representation |-> Rat(25, 100),
      subgroup_metrics         |-> Rat(20, 100),
      geographic_concentration |-> Rat(15, 100),
      fairness_method_coverage |-> Rat(15, 100),
      external_validation      |-> Rat(10, 100) ]

(***************************************************************************)
(* Text: str.lower(), `k in s`, s.startswith(k)                            *)
(***************************************************************************)
LowerChar(c) ==
    CASE c = "A" -> "a" [] c = "B" -> "b" [] c = "C" -> "c" [] c = "D" -> "d"
      [] c = "E" -> "e" [] c = "F" -> "f" [] c = "G" -> "g" [] c = "H" -> "h"
      [] c = "I" -> "i" [] c = "J" -> "j" [] c = "K" -> "k" [] c = "L" -> "l"
      [] c = "M" -> "m" [] c = "N" -> "n" [] c = "O" -> "o" [] c = "P" -> "p"
      [] c = "Q" -> "q" [] c = "R" -> "r" [] c = "S" -> "s" [] c = "T" -> "t"
      [] c = "U" -> "u" [] c = "V" -> "v" [] c = "W" -> "w" [] c = "X" -> "x"
      [] c = "Y" -> "y" [] c = "Z" -> "z" [] OTHER -> c

RECURSIVE Lower(_)
Lower(s) ==
    IF Len(s) = 0 THEN s
    ELSE IF Len(s) = 1 THEN LowerChar(s)
    ELSE LET half == Len(s) \div 2
         IN  Lower(SubSeq(s, 1, half)) \o Lower(SubSeq(s, half + 1, Len(s)))

\* Python `k in s` for strings
Contains(k, s) ==
    \E i \in 1..(Len(s) - Len(k) + 1) : SubSeq(s, i, i + Len(k) - 1) = k

StartsWith(s, k) == Len(k) <= Len(s) /\ SubSeq(s, 1, Len(k)) = k

\* any(k in s for k in ks), ks a tuple of strings
AnyIn(ks, s) == \E j \in 1..Len(ks) : Contains(ks[j], s)

(***************************************************************************)
(* scoring.py : BiasScorer                                                 *)
(***************************************************************************)
\* sum(self.weights.values())
RECURSIVE SumValues(_)
SumValues(d) ==
    IF DOMAIN d = {} THEN R0
    ELSE LET k == CHOOSE x \in DOMAIN d : TRUE
         IN  RAdd(d[k], SumValues([x \in DOMAIN d \ {k} |-> d[x]]))

\* Python truthiness of an optional argument: None, an empty dict and 0.0 are falsy
TruthyTable(opt) == opt # << >> /\ DOMAIN opt[1] # {}
TruthyNumber(opt) == opt # << >> /\ opt[1][1] # 0

\* BiasScorer.__init__: << >> when ValueError is raised, else <<the scorer>>
BiasScorerInit(weights, threshold) ==
    LET w == IF TruthyTable(weights) THEN weights[1] ELSE SCORE_WEIGHTS
        t == IF TruthyNumber(threshold) THEN threshold[1] ELSE BIAS_SCORE_THRESHOLD
        total_weight == SumValues(w)
    IN  IF RLt(Rat(1, 100), RAbs(RSub(total_weight, R1)))
        THEN << >>
        ELSE << [weights |-> w, threshold |-> t] >>

\* compute_race_label_score without the worst case for an empty dataset list
compute_race_label_score_ZeroIsBest(dataset_analysis) ==
    LET summary     == Get(dataset_analysis, "summary", EmptyDict)
        total       == Get(summary, "total_datasets", 0)
        with_labels == Get(summary, "datasets_with_race_labels", 0)
    IN  IF total = 0 THEN R0
        ELSE RMin(RSub(R1, Rat(with_labels, total)), R1)

compute_race_label_score(dataset_analysis) ==
    LET summary     == Get(dataset_analysis, "summary", EmptyDict)
        total       == Get(summary, "total_datasets", 0)
        with_labels == Get(summary, "datasets_with_race_labels", 0)
    IN  IF total = 0 THEN R1
        ELSE RMin(RSub(R1, Rat(with_labels, total)), R1)

\* the gap formula shared by the two branches of the dark-skin score
RepresentationGap(actual, target) ==
    IF RLe(target, actual) THEN R0
    ELSE LET gap     == RSub(target, actual)
             max_gap == target
             score   == IF RLt(R0, max_gap) THEN RDiv(gap, max_gap) ELSE R1
         IN  RMin(score, R1)

\* compute_dark_skin_representation_score preferring the minority metric
compute_dark_skin_representation_score_MinorityFirst(dataset_analysis) ==
    LET summary == Get(dataset_analysis, "summary", EmptyDict)
    IN  IF "avg_minority_representation" \in DOMAIN summary
        THEN RepresentationGap(summary["avg_minority_representation"], Rat(25, 100))
        ELSE RepresentationGap(Get(summary, "avg_dark_skin_proportion", R0),
                               TARGET_DARK_SKIN_PROPORTION)

compute_dark_skin_representation_score(dataset_analysis) ==
    LET summary == Get(dataset_analysis, "summary", EmptyDict)
    IN  IF "avg_dark_skin_proportion" \in DOMAIN summary
        THEN RepresentationGap(summary["avg_dark_skin_proportion"], TARGET_DARK_SKIN_PROPORTION)
        ELSE RepresentationGap(Get(summary, "avg_minority_representation", R0), Rat(25, 100))

compute_subgroup_metrics_score(subgroup_analysis) ==
    LET summary      == Get(subgroup_analysis, "summary", EmptyDict)
        total        == Get(summary, "total_studies", 0)
        with_metrics == Get(summary, "studies_with_subgroup_metrics", 0)
        no_reporting == Get(subgroup_analysis, "no_subgroup_reporting", 0)
    IN  IF total = 0 THEN R1
        ELSE RMin(IF no_reporting > 0 THEN Rat(no_reporting, total)
                  ELSE RSub(R1, Rat(with_metrics, total)), R1)

\* diversity_map.get(x.lower(), 1.0)
DiversityMap(x) ==
    LET l == Lower(x)
    IN  IF l = "low" THEN R1
        ELSE IF l = "medium" THEN Rat(1, 2)
        ELSE IF l = "high" THEN R0
        ELSE R1

compute_geographic_concentration_score(dataset_analysis, mitigation_analysis) ==
    LET dataset_summary   == Get(dataset_analysis, "summary", EmptyDict)
        geo_diversity     == Get(dataset_summary, "geographic_diversity", "low")
        validation        == Get(mitigation_analysis, "validation", EmptyDict)
        val_geo_diversity == Get(validation, "geographic_diversity", "low")
    IN  RDiv(RAdd(DiversityMap(geo_diversity), DiversityMap(val_geo_diversity)), RInt(2))

compute_fairness_method_score(mitigation_analysis) ==
    LET summary      == Get(mitigation_analysis, "summary", EmptyDict)
        total        == Get(summary, "total_studies", 0)
        with_methods == Get(summary, "studies_with_fairness_methods", 0)
    IN  IF total = 0 THEN R1
        ELSE RMin(RSub(R1, Rat(with_methods, total)), R1)

compute_external_validation_score(mitigation_analysis) ==
    LET summary         == Get(mitigation_analysis, "summary", EmptyDict)
        total           == Get(summary, "total_studies", 0)
        with_validation == Get(summary, "studies_with_external_validation", 0)
    IN  IF total = 0 THEN R1
        ELSE RMin(RSub(R1, Rat(with_validation, total)), R1)

\* sorted(breakdown.items(), key=lambda x: x[1], reverse=True): a stable sort, so
\* equal scores keep the order of the dict literal.  Insertion of k behind every
\* element whose score is not smaller.
RECURSIVE InsertDescending(_, _, _)
InsertDescending(k, sorted, breakdown) ==
    IF sorted = << >> THEN <<k>>
    ELSE IF RLt(breakdown[Head(sorted)], breakdown[k])
         THEN <<k>> \o sorted
         ELSE <<Head(sorted)>> \o InsertDescending(k, Tail(sorted), breakdown)

RECURSIVE SortedKeys(_, _)
SortedKeys(keys, breakdown) ==
    IF keys = << >> THEN << >>
    ELSE InsertDescending(keys[Len(keys)],
                          SortedKeys(SubSeq(keys, 1, Len(keys) - 1), breakdown),
                          breakdown)

\* _get_driver_description: which sentence is rendered for a driver.  The sentence
\* is kept as the dimension it explains and the template the code selects.
get_driver_description(key, dataset_analysis, subgroup_analysis, mitigation_analysis) ==
    LET dsum == Get(dataset_analysis, "summary", EmptyDict)
        ssum == Get(subgroup_analysis, "summary", EmptyDict)
        msum == Get(mitigation_analysis, "summary", EmptyDict)
        template ==
            CASE key = "race_label_availability" ->
                     IF Get(dsum, "total_datasets", 0) > 0 THEN "counts" ELSE "generic"
              [] key = "dark_skin_representation" ->
                     IF "avg_dark_skin_proportion" \in DOMAIN dsum THEN "dark_skin"
                     ELSE IF "avg_minority_representation" \in DOMAIN dsum THEN "minority"
                     ELSE "generic"
              [] key = "subgroup_metrics" ->
                     IF Get(ssum, "total_studies", 0) > 0 THEN "counts" ELSE "generic"
              [] key = "geographic_concentration" -> "diversity"
              [] key = "fairness_method_coverage" ->
                     IF Get(msum, "total_studies", 0) > 0 THEN "counts" ELSE "generic"
              [] key = "external_validation" ->
                     IF Get(msum, "total_studies", 0) > 0 THEN "counts" ELSE "generic"
              [] OTHER -> "score"
    IN  [dimension |-> key, template |-> template]

\* sum(breakdown[key] * self.weights.get(key, 0.0) for key in breakdown)
RECURSIVE WeightedSum(_, _, _)
WeightedSum(keys, breakdown, weights) ==
    IF keys = << >> THEN R0
    ELSE RAdd(RMul(breakdown[Head(keys)], Get(weights, Head(keys), R0)),
              WeightedSum(Tail(keys), breakdown, weights))

\* the drivers loop: the first three of the sorted items, those above 0.5 kept
RECURSIVE DriversOf(_, _, _, _, _)
DriversOf(top, breakdown, dataset_analysis, subgroup_analysis, mitigation_analysis) ==
    IF top = << >> THEN << >>
    ELSE (IF RLt(Rat(1, 2), breakdown[Head(top)])
          THEN << get_driver_description(Head(top), dataset_analysis,
                                         subgroup_analysis, mitigation_analysis) >>
          ELSE << >>)
         \o DriversOf(Tail(top), breakdown, dataset_analysis, subgroup_analysis,
                      mitigation_analysis)

Breakdown(dataset_analysis, subgroup_analysis, mitigation_analysis) ==
    [ race_label_availability  |-> compute_race_label_score(dataset_analysis),
      dark_skin_representation |-> compute_dark_skin_representation_score(dataset_analysis),
      subgroup_metrics         |-> compute_subgroup_metrics_score(subgroup_analysis),
      geographic_concentration |->
          compute_geographic_concentration_score(dataset_analysis, mitigation_analysis),
      fairness_method_coverage |-> compute_fairness_method_score(mitigation_analysis),
      external_validation      |-> compute_external_validation_score(mitigation_analysis) ]

\* total_sources in compute_bias_score
TotalSources(dataset_analysis, subgroup_analysis, mitigation_analysis) ==
    Get(Get(dataset_analysis, "summary", EmptyDict), "total_datasets", 0)
    + Get(Get(subgroup_analysis, "summary", EmptyDict), "total_studies", 0)
    + Get(Get(mitigation_analysis, "summary", EmptyDict), "total_studies", 0)

\* Confidence with a strict comparison against MIN_SOURCES_FOR_FLAG
Confidence_Strict(total_sources) ==
    IF total_sources > MIN_SOURCES_FOR_FLAG THEN "high"
    ELSE IF total_sources > 0 THEN "medium" ELSE "low"

Confidence(total_sources) ==
    IF total_sources >= MIN_SOURCES_FOR_FLAG THEN "high"
    ELSE IF total_sources > 0 THEN "medium" ELSE "low"

Flagged(total_score, threshold) == RLe(threshold, total_score)

\* ScoreField without the rounding
ScoreField_Unrounded(total_score) == total_score

ScoreField(total_score) == Round3(total_score)

\* TopItems with a slice one item too long
TopItems_FirstFour(sorted_breakdown) == SubSeq(sorted_breakdown, 1, 4)

TopItems(sorted_breakdown) == SubSeq(sorted_breakdown, 1, 3)

compute_bias_score(self, dataset_analysis, subgroup_analysis, mitigation_analysis) ==
    LET breakdown        == Breakdown(dataset_analysis, subgroup_analysis, mitigation_analysis)
        total_score      == WeightedSum(Dimensions, breakdown, self.weights)
        sorted_breakdown == SortedKeys(Dimensions, breakdown)
        drivers          == DriversOf(TopItems(sorted_breakdown), breakdown, dataset_analysis,
                                      subgroup_analysis, mitigation_analysis)
        total_sources    == TotalSources(dataset_analysis, subgroup_analysis, mitigation_analysis)
    IN  [ score      |-> ScoreField(total_score),
          threshold  |-> self.threshold,
          flagged    |-> Flagged(total_score, self.threshold),
          breakdown  |-> breakdown,
          drivers    |-> drivers,
          confidence |-> Confidence(total_sources) ]

(***************************************************************************)
(* context_manager.py : ContextManager                                     *)
(***************************************************************************)
\* ContextManager.__init__: an optional field is << >> (None) or <<value>>
NewContextManager ==
    [ context |-> [ medical_field      |-> << >>,
                    specific_condition |-> << >>,
                    time_range         |-> << >>,
                    bias_aspects       |-> << >> ],
      conversation_history |-> << >> ]

\* the `fields` dict of _extract_from_input, in insertion order
FieldKeywords ==
    << <<"dermatology", <<"dermatology", "skin", "melanoma", "acne", "eczema",
                          "dermatological", "skin cancer">> >>,
       <<"cardiology", <<"cardiology", "heart", "cardiovascular", "ecg", "troponin",
                         "cardiac">> >>,
       <<"radiology", <<"radiology", "x-ray", "xray", "ct scan", "mri", "imaging",
                        "radiographic">> >>,
       <<"oncology", <<"oncology", "cancer", "tumor", "tumour", "malignancy">> >>,
       <<"pulmonology", <<"pulmonology", "lung", "pneumonia", "respiratory",
                          "pulmonary">> >>,
       <<"ophthalmology", <<"ophthalmology", "eye", "retinal", "retina",
                            "diabetic retinopathy">> >>,
       <<"pathology", <<"pathology", "histopathology", "biopsy">> >> >>

\* the `conditions` dict of _extract_from_input, in insertion order
ConditionKeywords ==
    << <<"melanoma", <<"melanoma", "skin cancer">> >>,
       <<"heart disease", <<"heart disease", "cardiovascular disease", "cardiac",
                            "heart failure">> >>,
       <<"pneumonia", <<"pneumonia", "lung infection">> >>,
       <<"acne", <<"acne">> >>,
       <<"eczema", <<"eczema", "atopic dermatitis">> >>,
       <<"diabetic retinopathy", <<"diabetic retinopathy", "retinopathy">> >> >>

\* for name, keywords in table.items(): if any(k in input_lower ...): take name; break
RECURSIVE FirstMatch(_, _)
FirstMatch(table, input_lower) ==
    IF table = << >> THEN << >>
    ELSE IF AnyIn(Head(table)[2], input_lower) THEN << Head(table)[1] >>
    ELSE FirstMatch(Tail(table), input_lower)

\* the time-range chain of _extract_from_input
ExtractTimeRange(input_lower) ==
    IF AnyIn(<<"5 years", "past 5", "last 5", "5 year">>, input_lower) THEN <<5>>
    ELSE IF AnyIn(<<"3 years", "past 3", "last 3", "3 year">>, input_lower) THEN <<3>>
    ELSE IF AnyIn(<<"10 years", "past 10", "last 10", "10 year">>, input_lower) THEN <<10>>
    ELSE IF AnyIn(<<"recent", "latest", "current">>, input_lower) THEN <<3>>
    ELSE << >>

\* x in list
InList(x, list) == \E i \in 1..Len(list) : list[i] = x

\* if x not in list: list.append(x)
AppendNew(list, x) == IF InList(x, list) THEN list ELSE Append(list, x)

ExtractBiasAspects(aspects, input_lower) ==
    LET a1 == IF Contains("data imbalance", input_lower)
                 \/ Contains("data representation", input_lower)
              THEN AppendNew(aspects, "data imbalance") ELSE aspects
        a2 == IF Contains("diagnostic bias", input_lower)
              THEN AppendNew(a1, "diagnostic bias") ELSE a1
    IN  IF Contains("performance", input_lower) /\ Contains("gap", input_lower)
        THEN AppendNew(a2, "performance gaps") ELSE a2

\* variant: what the utterance names replaces the value a field holds
extract_from_input_Overwrites(context, user_input) ==
    LET input_lower == Lower(user_input)
        take(old, found) == IF found # << >> THEN found ELSE old
    IN  [ medical_field      |-> take(context.medical_field,
                                      FirstMatch(FieldKeywords, input_lower)),
          specific_condition |-> take(context.specific_condition,
                                      FirstMatch(ConditionKeywords, input_lower)),
          time_range         |-> take(context.time_range, ExtractTimeRange(input_lower)),
          bias_aspects       |-> ExtractBiasAspects(context.bias_aspects, input_lower) ]

\* ContextManager._extract_from_input: a field that already holds a value is kept
extract_from_input(context, user_input) ==
    LET input_lower == Lower(user_input)
        keep(old, found) == IF old # << >> THEN old ELSE found
    IN  [ medical_field      |-> keep(context.medical_field,
                                      FirstMatch(FieldKeywords, input_lower)),
          specific_condition |-> keep(context.specific_condition,
                                      FirstMatch(ConditionKeywords, input_lower)),
          time_range         |-> keep(context.time_range, ExtractTimeRange(input_lower)),
          bias_aspects       |-> ExtractBiasAspects(context.bias_aspects, input_lower) ]

\* ContextManager.update_context(user_input), called without extracted_info
update_context(cm, user_input) ==
    [ context |-> extract_from_input(cm.context, user_input),
      conversation_history |->
          Append(cm.conversation_history, [role |-> "user", content |-> user_input]) ]

\* variant: any context counts as sufficient
has_sufficient_context_Always(cm) == TRUE

has_sufficient_context(cm) == cm.context.medical_field # << >>

get_scope(cm) ==
    LET c == cm.context
    IN  IF c.medical_field # << >> /\ c.specific_condition # << >>
        THEN c.medical_field[1] \o " " \o c.specific_condition[1]
        ELSE IF c.medical_field # << >> THEN c.medical_field[1]
        ELSE IF c.specific_condition # << >> THEN c.specific_condition[1]
        ELSE "medical AI"

\* variant: an unset time range counts as ten years
get_time_range_DefaultsToTen(cm) ==
    IF cm.context.time_range # << >> THEN cm.context.time_range[1] ELSE 10

get_time_range(cm) == IF cm.context.time_range # << >> THEN cm.context.time_range[1] ELSE 5

add_assistant_response(cm, response) ==
    [ cm EXCEPT !.conversation_history =
          Append(@, [role |-> "assistant", content |-> response]) ]

(***************************************************************************)
(* The collaborators of the handler (llm_client.py).  What they return is  *)
(* not decided by the handler: every call has each of its outcomes.        *)
(***************************************************************************)
\* the dict analyze_dataset_composition returns when its own work failed
ErrorDataset ==
    [ datasets |-> << >>,
      summary  |-> [total_datasets |-> 0, datasets_with_race_labels |-> 0,
                    avg_dark_skin_proportion |-> R0],
      error |-> "Error calling LLM API",
      real_papers |-> << >>,
      total_papers_found |-> 0 ]

\* the dict analyze_subgroup_performance returns when its own work failed
ErrorSubgroup ==
    [ studies |-> << >>,
      summary |-> [total_studies |-> 0, studies_with_subgroup_metrics |-> 0,
                   avg_performance_gap |-> R0],
      error |-> "Error calling LLM API",
      real_papers |-> << >>,
      total_papers_found |-> 0 ]

\* the dict analyze_mitigation_validation returns when its own work failed
ErrorMitigation ==
    [ fairness_methods |-> EmptyDict,
      validation |-> EmptyDict,
      studies |-> << >>,
      summary |-> [total_studies |-> 0, studies_with_fairness_methods |-> 0],
      error |-> "Error calling LLM API",
      real_papers |-> << >>,
      total_papers_found |-> 0 ]

\* findings of a call that worked: the parsed JSON plus real_papers / total_papers_found
FoundDataset ==
    [ summary |-> [total_datasets |-> 2, datasets_with_race_labels |-> 1,
                   avg_dark_skin_proportion |-> Rat(10, 100),
                   geographic_diversity |-> "low"],
      real_papers |-> << [title |-> "Skin tone in dermatology datasets", year |-> "2022",
                          url |-> "https://example.org/p1"] >>,
      total_papers_found |-> 1 ]

FoundSubgroup ==
    [ summary |-> [total_studies |-> 3, studies_with_subgroup_metrics |-> 1,
                   avg_performance_gap |-> Rat(8, 100)],
      real_papers |-> << >>,
      total_papers_found |-> 0 ]

FoundMitigation ==
    [ summary |-> [total_studies |-> 2, studies_with_fairness_methods |-> 1,
                   studies_with_external_validation |-> 0],
      validation |-> [geographic_diversity |-> "medium"],
      studies |-> << [paper |-> "Reweighting for fair classifiers",
                      fairness_methods |-> <<"reweighting">>,
                      url |-> "https://example.org/p2"] >>,
      real_papers |-> << >>,
      total_papers_found |-> 0 ]

\* outcomes of one provider call: << >> when it raises, else <<the findings>>
DatasetOutcomes == { << >>, <<ErrorDataset>>, <<FoundDataset>> }
SubgroupOutcomes == { << >>, <<ErrorSubgroup>>, <<FoundSubgroup>> }
MitigationOutcomes == { << >>, <<ErrorMitigation>>, <<FoundMitigation>> }

\* what the provider does during one analysis, as <<dataset, subgroup, mitigation>>
\* outcomes: all three calls work, one of them raises, or all three report their
\* own error (the repository's client when the API cannot be reached)
ProviderScenarios ==
    { << <<FoundDataset>>, <<FoundSubgroup>>, <<FoundMitigation>> >>,
      << << >>, <<FoundSubgroup>>, <<FoundMitigation>> >>,
      << <<FoundDataset>>, << >>, <<FoundMitigation>> >>,
      << <<FoundDataset>>, <<FoundSubgroup>>, << >> >>,
      << <<ErrorDataset>>, <<ErrorSubgroup>>, <<ErrorMitigation>> >> }

\* outcomes of generate_response for prose: << >> when it raises, else <<the text>>
NarrativeOutcomes ==
    { << >>, <<"The evidence base is thin.">>, <<"The margin of error is wide.">> }

\* outcomes of generate_response for the field extraction prompt
ExtractionOutcomes ==
    { << >>, <<"none">>, <<" Cardiology\n">>, <<"neurology">> }

\* str.strip()
IsSpace(c) == c \in {" ", "\n", "\t", "\r"}

RECURSIVE LStrip(_)
LStrip(s) ==
    IF Len(s) > 0 /\ IsSpace(SubSeq(s, 1, 1)) THEN LStrip(SubSeq(s, 2, Len(s))) ELSE s

RECURSIVE RStrip(_)
RStrip(s) ==
    IF Len(s) > 0 /\ IsSpace(SubSeq(s, Len(s), Len(s)))
    THEN RStrip(SubSeq(s, 1, Len(s) - 1)) ELSE s

Strip(s) == RStrip(LStrip(s))

(***************************************************************************)
(* conversation_handler.py : ConversationHandler                           *)
(*                                                                         *)
(* A handler object `self` is [cm, analysis_results, scorer, trace]; trace *)
(* lists the methods entered and the collaborator calls made during the    *)
(* current handle_message.  A method is the set of its outcomes            *)
(* [self, ret, raised]: the object it leaves, the text it returns, and     *)
(* whether it raised instead of returning.                                 *)
(***************************************************************************)
\* ConversationHandler.__init__ with the default scorer
HandlerScorer == BiasScorerInit(<<SCORE_WEIGHTS>>, <<BIAS_SCORE_THRESHOLD>>)

\* an entry of the trace: a method entered (out is "") or a collaborator call with
\* its arguments and what came out of it
Event(name, scope, years) == [ev |-> name, scope |-> scope, years |-> years, out |-> ""]
Enter(self, name) == [self EXCEPT !.trace = Append(@, Event(name, "", 0))]

\* what came out of a collaborator call: it raised, or it returned findings or text
OutRaised == "raised"
OutFindings(findings) ==
    IF "error" \in DOMAIN findings THEN "returned findings with an error field"
    ELSE "returned findings"
OutText(text) == "returned: " \o text
OutOfText(outcome) == IF outcome = << >> THEN OutRaised ELSE OutText(outcome[1])

OutOfFindings(outcome) == IF outcome = << >> THEN OutRaised ELSE OutFindings(outcome[1])

\* a collaborator call is added to the trace
Call(self, name, scope, years, out) ==
    [self EXCEPT !.trace = Append(@, [Event(name, scope, years) EXCEPT !.out = out])]
Returns(self, text) == [self |-> self, ret |-> text, raised |-> FALSE]
Raises(self) == [self |-> self, ret |-> "", raised |-> TRUE]

ClarifyingQuestion ==
    "What medical field or condition would you like me to analyze? (e.g., dermatology, cardiology, radiology, skin cancer, heart disease)"

NeedAnalysisFirst ==
    "I need to perform an analysis first. What medical field would you like me to analyze?"

OptionsText ==
    "I can help you with:\n1. Provide mitigation method recommendations\n2. Answer specific questions about bias in medical AI\n3. Analyze a different medical field"

\* the apology of _perform_analysis; str(e) is the collaborator's message
Apology(message) ==
    "I encountered an error while analyzing: " \o message
    \o ". Please try again or provide more specific information."

FollowUpOptions ==
    "\n\nI can also provide specific mitigation methods, show recent papers that address these gaps, or analyze a different medical field."

DeferralTokens == <<"wait", "not yet", "don't", "no", "later">>
Affirmations == <<"yes", "y", "yeah", "sure", "please">>
PaperPhrases == <<"show", "list", "provide", "give", "find", "recommend", "suggest", "share", "see">>
PaperTerms == <<"paper", "study", "research", "citation", "publication", "article">>
PaperPlurals == <<"papers", "studies", "research papers", "recent papers">>

\* the is_paper_request expression repeated throughout the handler
IsPaperRequest(input_lower) ==
    (AnyIn(PaperPhrases, input_lower) /\ AnyIn(PaperTerms, input_lower))
    \/ AnyIn(PaperPlurals, input_lower)

ask_for_medical_field_only(self) ==
    { Returns(Enter(self, "_ask_for_medical_field_only"), ClarifyingQuestion) }

\* variant: whatever the extraction call returns is taken as the field
extract_medical_field_llm_AcceptsAny(outcome) ==
    IF outcome = << >> THEN << >> ELSE << Lower(Strip(outcome[1])) >>

\* _extract_medical_field_llm: the extracted field of each outcome of the call
extract_medical_field_llm(outcome) ==
    IF outcome = << >> THEN << >>
    ELSE LET field == Lower(Strip(outcome[1]))
         IN  IF InList(field, <<"dermatology", "cardiology", "radiology", "oncology",
                                "pulmonology", "ophthalmology", "pathology">>)
             THEN <<field>> ELSE << >>

is_analysis_request(self, user_input) ==
    LET input_lower == Lower(user_input)
    IN  IF IsPaperRequest(input_lower) THEN FALSE
        ELSE IF AnyIn(<<"bias", "areas", "under-explored">>, input_lower)
                /\ AnyIn(<<"find", "identify", "help", "what", "where">>, input_lower)
        THEN TRUE
        ELSE IF Contains("gaps", input_lower)
                /\ AnyIn(<<"find", "identify", "help", "what", "where", "analyze">>, input_lower)
        THEN TRUE
        ELSE AnyIn(<<"analyze", "find", "identify", "look at", "examine", "check",
                     "help", "can you", "areas", "bias">>, input_lower)
             /\ has_sufficient_context(self.cm)

is_mitigation_request(user_input) ==
    LET input_lower == Lower(user_input)
    IN  IF IsPaperRequest(input_lower) THEN FALSE
        ELSE IF Contains("address", input_lower)
                /\ AnyIn(<<"paper", "study", "research", "that address">>, input_lower)
        THEN FALSE
        ELSE AnyIn(<<"mitigation", "method", "solution", "address", "reduce", "fix",
                     "improve">>, input_lower)

is_follow_up(user_input) ==
    LET input_lower == Lower(user_input)
        keywords == <<"what", "how", "why", "when", "where", "can you", "show me", "tell me",
                      "can we", "talk about", "tell me about", "explain", "more about",
                      "what about", "discuss", "elaborate">>
    IN  \/ \E i \in 1..Len(keywords) : StartsWith(input_lower, keywords[i])
        \/ AnyIn(<<"talk more", "more about", "tell me more", "can we talk">>, input_lower)

\* one generate_response call for prose: the object with the call traced, and the outcome
Generate(self) ==
    { [self |-> Call(self, "generate_response", "", 0, OutOfText(o)), text |-> o]
      : o \in NarrativeOutcomes }

\* _format_analysis_response; a raise of generate_response passes through it
format_analysis_response(self) ==
    { IF g.text = << >> THEN Raises(g.self)
      ELSE LET response == g.text[1] \o FollowUpOptions
           IN  Returns([g.self EXCEPT !.cm = add_assistant_response(@, response)], response)
      : g \in Generate(self) }

\* variant: the response is formatted but the results are not stored
ScoreAndStore_NotStored(self0, scope, years, dataset_analysis, subgroup_analysis, mitigation_analysis) ==
    { IF o.raised THEN Returns(o.self, Apology("Error calling LLM API")) ELSE o
      : o \in format_analysis_response(self0) }

\* variant: the except clause also drops the stored analysis
AnalysisFailed_DropsResult(self, message) ==
    Returns([self EXCEPT !.analysis_results = << >>], Apology(message))

\* the except clause of _perform_analysis: the apology is returned, nothing is assigned
AnalysisFailed(self, message) == Returns(self, Apology(message))

\* the try block of _perform_analysis after the three provider calls returned
ScoreAndStore(self0, scope, years, dataset_analysis, subgroup_analysis, mitigation_analysis) ==
    LET self  == Call(self0, "compute_bias_score", "", 0, "returned a score")
        score == compute_bias_score(self.scorer, dataset_analysis,
                                    subgroup_analysis, mitigation_analysis)
        stored == [self EXCEPT !.analysis_results =
                      << [ scope |-> scope, years |-> years,
                           dataset_analysis |-> dataset_analysis,
                           subgroup_analysis |-> subgroup_analysis,
                           mitigation_analysis |-> mitigation_analysis,
                           score_results |-> score ] >>]
    IN  { IF o.raised THEN Returns(o.self, Apology("Error calling LLM API")) ELSE o
          : o \in format_analysis_response(stored) }

\* variant: what was gathered before a provider call raised is stored
perform_analysis_StoresPartial(self0) ==
    LET self  == Enter(self0, "_perform_analysis")
        scope == get_scope(self.cm)
        years == get_time_range(self.cm)
        failed(obj) == Returns([obj EXCEPT !.analysis_results =
                                   << [scope |-> scope, years |-> years] >>],
                              Apology("provider failure"))
    IN  UNION { LET d == p[1]
                    g == p[2]
                    m == p[3]
                    s1 == Call(self, "analyze_dataset_composition", scope, years,
                               OutOfFindings(d))
                    s2 == Call(s1, "analyze_subgroup_performance", scope, 0,
                               OutOfFindings(g))
                    s3 == Call(s2, "analyze_mitigation_validation", scope, years,
                               OutOfFindings(m))
                IN  IF d = << >> THEN { failed(s1) }
                    ELSE IF g = << >> THEN { failed(s2) }
                    ELSE IF m = << >> THEN { failed(s3) }
                    ELSE ScoreAndStore(s3, scope, years, d[1], g[1], m[1])
                : p \in ProviderScenarios }

perform_analysis(self0) ==
    LET self  == Enter(self0, "_perform_analysis")
        scope == get_scope(self.cm)
        years == get_time_range(self.cm)
        failed(obj) == AnalysisFailed(obj, "provider failure")
    IN  UNION { LET d == p[1]
                    g == p[2]
                    m == p[3]
                    s1 == Call(self, "analyze_dataset_composition", scope, years,
                               OutOfFindings(d))
                    s2 == Call(s1, "analyze_subgroup_performance", scope, 0,
                               OutOfFindings(g))
                    s3 == Call(s2, "analyze_mitigation_validation", scope, years,
                               OutOfFindings(m))
                IN  IF d = << >> THEN { failed(s1) }
                    ELSE IF g = << >> THEN { failed(s2) }
                    ELSE IF m = << >> THEN { failed(s3) }
                    ELSE ScoreAndStore(s3, scope, years, d[1], g[1], m[1])
                : p \in ProviderScenarios }

\* a prose answer: one generate_response call, the text wrapped and appended to the
\* history; a raise of the call leaves the method
ProseAnswer(self, prefix, suffix) ==
    { IF g.text = << >> THEN Raises(g.self)
      ELSE LET response == prefix \o g.text[1] \o suffix
           IN  Returns([g.self EXCEPT !.cm = add_assistant_response(@, response)], response)
      : g \in Generate(self) }

answer_about_data_imbalance(self0) ==
    LET self == Enter(self0, "_answer_about_data_imbalance")
    IN  IF self.analysis_results = << >> THEN { Returns(self, NeedAnalysisFirst) }
        ELSE ProseAnswer(self, "", "")

answer_about_performance(self0) ==
    LET self == Enter(self0, "_answer_about_performance")
    IN  IF self.analysis_results = << >> THEN { Returns(self, NeedAnalysisFirst) }
        ELSE ProseAnswer(self, "", "")

\* papers[:n]
FirstN(list, n) == SubSeq(list, 1, IF Len(list) < n THEN Len(list) ELSE n)

\* "\n".join(f"- {title} ({year}) - {url}" for p in papers)
RECURSIVE PaperLines(_)
PaperLines(papers) ==
    IF papers = << >> THEN ""
    ELSE "- " \o Head(papers).title \o " (" \o Head(papers).year \o ") - " \o Head(papers).url
         \o (IF Len(papers) > 1 THEN "\n" ELSE "") \o PaperLines(Tail(papers))

MoreDetails == "\n\nWould you like more details about any specific aspect of the analysis?"

answer_about_papers(self0) ==
    LET self == Enter(self0, "_answer_about_papers")
    IN  IF self.analysis_results = << >> THEN { Returns(self, NeedAnalysisFirst) }
        ELSE LET scope == get_scope(self.cm)
                 r == self.analysis_results[1]
                 all_papers ==
                     FirstN(Get(r.dataset_analysis, "real_papers", << >>), 5)
                     \o FirstN(Get(r.subgroup_analysis, "real_papers", << >>), 5)
                     \o FirstN(Get(r.mitigation_analysis, "real_papers", << >>), 5)
             IN  IF all_papers # << >>
                 THEN LET response == "Based on my analysis of " \o scope
                                      \o ", here are relevant papers I found:\n\n"
                                      \o PaperLines(FirstN(all_papers, 10)) \o MoreDetails
                      IN  { Returns([self EXCEPT !.cm = add_assistant_response(@, response)],
                                    response) }
                 ELSE ProseAnswer(self,
                          "Based on my analysis of " \o scope
                          \o " research, here are papers that address the identified bias gaps:\n\n",
                          MoreDetails)

\* ", ".join(methods)
RECURSIVE JoinComma(_)
JoinComma(items) ==
    IF items = << >> THEN ""
    ELSE Head(items) \o (IF Len(items) > 1 THEN ", " ELSE "") \o JoinComma(Tail(items))

\* the studies of the mitigation analysis that list fairness methods
RECURSIVE PapersWithMethods(_)
PapersWithMethods(studies) ==
    IF studies = << >> THEN << >>
    ELSE (IF Get(Head(studies), "fairness_methods", << >>) # << >>
          THEN << [ title   |-> Get(Head(studies), "paper", "Unknown"),
                    methods |-> Head(studies).fairness_methods,
                    url     |-> Get(Head(studies), "url", "") ] >>
          ELSE << >>)
         \o PapersWithMethods(Tail(studies))

RECURSIVE MethodLines(_)
MethodLines(papers) ==
    IF papers = << >> THEN ""
    ELSE "- " \o Head(papers).title \o " - Methods: " \o JoinComma(Head(papers).methods)
         \o (IF Head(papers).url # "" THEN " (" \o Head(papers).url \o ")" ELSE "")
         \o (IF Len(papers) > 1 THEN "\n" ELSE "") \o MethodLines(Tail(papers))

\* _provide_mitigation_recommendations once self.analysis_results is set
RecommendFromResults(self) ==
    LET scope  == get_scope(self.cm)
        papers == PapersWithMethods(Get(self.analysis_results[1].mitigation_analysis,
                                        "studies", << >>))
        head(text) == "Based on the identified gaps in " \o scope
                      \o " research, here are recommended mitigation methods:\n\n" \o text
        finish(obj, response) ==
            Returns([obj EXCEPT !.cm = add_assistant_response(@, response)], response)
    IN  UNION { IF g.text = << >> THEN { Raises(g.self) }
                ELSE IF papers # << >>
                THEN { finish(g.self, head(g.text[1])
                                      \o "\n\nRecent papers that applied fairness methods:\n"
                                      \o MethodLines(FirstN(papers, 5))) }
                ELSE { IF g2.text = << >> THEN Raises(g2.self)
                       ELSE finish(g2.self, head(g.text[1]) \o "\n\n" \o g2.text[1])
                       : g2 \in Generate(g.self) }
                : g \in Generate(self) }

\* variant: the analysis is run again before every recommendation
provide_mitigation_recommendations_AlwaysAnalyse(self0) ==
    LET self == Enter(self0, "_provide_mitigation_recommendations")
    IN  UNION { IF o.raised \/ Contains("error", Lower(o.ret)) THEN { o }
                ELSE IF o.self.analysis_results = << >> THEN { Raises(o.self) }
                ELSE RecommendFromResults(o.self)
                : o \in perform_analysis(self) }

provide_mitigation_recommendations(self0) ==
    LET self == Enter(self0, "_provide_mitigation_recommendations")
    IN  IF self.analysis_results = << >>
        THEN UNION { IF o.raised \/ Contains("error", Lower(o.ret)) THEN { o }
                     ELSE IF o.self.analysis_results = << >> THEN { Raises(o.self) }
                     ELSE RecommendFromResults(o.self)
                     : o \in perform_analysis(self) }
        ELSE RecommendFromResults(self)

default_response(self0) ==
    LET self == Enter(self0, "_default_response")
    IN  IF has_sufficient_context(self.cm) /\ self.analysis_results = << >>
        THEN perform_analysis(self)
        ELSE IF has_sufficient_context(self.cm) THEN { Returns(self, OptionsText) }
        ELSE ask_for_medical_field_only(self)

handle_follow_up(self0, user_input) ==
    LET self == Enter(self0, "_handle_follow_up")
        input_lower == Lower(user_input)
        analysed == self.analysis_results # << >>
    IN  IF analysed /\ IsPaperRequest(input_lower) THEN answer_about_papers(self)
        ELSE IF analysed /\ AnyIn(<<"data imbalance", "data representation", "dataset",
                                    "race label">>, input_lower)
        THEN answer_about_data_imbalance(self)
        ELSE IF analysed /\ ~AnyIn(PaperTerms, input_lower)
                /\ AnyIn(<<"performance", "subgroup", "accuracy", "gap">>, input_lower)
        THEN answer_about_performance(self)
        ELSE IF analysed /\ AnyIn(<<"mitigation", "fairness", "method", "solution">>, input_lower)
        THEN provide_mitigation_recommendations(self)
        ELSE IF (Contains("concerning", input_lower) \/ Contains("that's", input_lower))
                /\ analysed
        THEN LET response == "Exactly. The issue starts with who's represented in the data and extends to how disease is diagnosed and treated. When clinical norms are built from biased datasets, the AI inherits and amplifies those biases."
             IN  { Returns([self EXCEPT !.cm = add_assistant_response(@, response)], response) }
        ELSE IF (Contains("what can i", input_lower) \/ Contains("how can i", input_lower))
                /\ AnyIn(<<"focus", "study", "reduce">>, input_lower)
        THEN provide_mitigation_recommendations(self)
        ELSE IF IsPaperRequest(input_lower) /\ analysed THEN answer_about_papers(self)
        ELSE ProseAnswer(self, "", "")

\* the routing by topic at the end of handle_message, once an analysis exists
RouteByTopic(self, input_lower) ==
    IF IsPaperRequest(input_lower) THEN answer_about_papers(self)
    ELSE IF AnyIn(<<"data imbalance", "data representation", "dataset">>, input_lower)
    THEN answer_about_data_imbalance(self)
    ELSE IF AnyIn(<<"performance", "subgroup", "gap">>, input_lower)
    THEN answer_about_performance(self)
    ELSE default_response(self)

\* the test of the "yes" branch on conversation_history[-2]
PreviousMentionsMitigation(cm) ==
    LET h == cm.conversation_history
    IN  Len(h) > 1 /\ Contains("mitigation", Lower(h[Len(h) - 1].content))

\* the secondary extraction of handle_message and what follows it
ExtractOrAsk(self0) ==
    LET self == Enter(self0, "_extract_medical_field_llm")
    IN  UNION { LET extracted == extract_medical_field_llm(o)
                    called == Call(self, "generate_response", "", 0, OutOfText(o))
                IN  IF extracted # << >>
                    THEN perform_analysis([called EXCEPT
                                              !.cm.context.medical_field = extracted])
                    ELSE ask_for_medical_field_only(called)
                : o \in ExtractionOutcomes }

\* variant: the sentinel is added to the aspects gathered so far
AnalyseAllAspects_KeepsAspects(self) ==
    perform_analysis([self EXCEPT !.cm.context.bias_aspects = AppendNew(@, "all")])

\* the "all" branch of handle_message: bias_aspects is replaced by ["all"], then
\* the analysis runs
AnalyseAllAspects(self) ==
    perform_analysis([self EXCEPT !.cm.context.bias_aspects = <<"all">>])

\* handle_message from update_context on: the routing of the utterance
RouteMessage(self0, user_input) ==
    LET self        == [self0 EXCEPT !.cm = update_context(@, user_input), !.trace = << >>]
        input_lower == Lower(user_input)
        field_known == has_sufficient_context(self.cm)
        analysed    == self.analysis_results # << >>
    IN  IF field_known /\ ~analysed /\ ~AnyIn(DeferralTokens, input_lower)
        THEN perform_analysis(self)
        ELSE IF (Contains("all of them", input_lower) \/ Contains("all", input_lower))
                /\ self.cm.context.medical_field # << >> /\ ~analysed
        THEN AnalyseAllAspects(self)
        ELSE IF ~field_known THEN ExtractOrAsk(self)
        ELSE IF is_analysis_request(self, user_input) THEN perform_analysis(self)
        ELSE IF analysed /\ IsPaperRequest(input_lower) THEN answer_about_papers(self)
        ELSE IF is_mitigation_request(user_input) THEN provide_mitigation_recommendations(self)
        ELSE IF is_follow_up(user_input) THEN handle_follow_up(self, user_input)
        ELSE IF InList(input_lower, Affirmations)
        THEN IF PreviousMentionsMitigation(self.cm) \/ analysed
             THEN provide_mitigation_recommendations(self)
             ELSE default_response(self)
        ELSE IF analysed THEN RouteByTopic(self, input_lower)
        ELSE default_response(self)

\* the head of handle_message: with tracking enabled the first message starts the
\* metrics session
StartSession(self) ==
    IF self.metrics.enable_metrics_tracking /\ ~self.metrics.session_start_time
    THEN [self EXCEPT !.metrics.session_start_time = TRUE]
    ELSE self

\* variant: tracking a response also drops the stored analysis
track_response_metrics_DropsAnalysis(o) ==
    IF o.raised \/ ~o.self.metrics.enable_metrics_tracking THEN o
    ELSE [o EXCEPT !.self.tracked = << o.ret >>, !.self.analysis_results = << >>]

\* _track_response_metrics, called with the response before it is returned: the
\* response time, the claims and the gaps of the response go to the tracker, whose
\* lists are seen here as `tracked`, the response the call handed over
track_response_metrics(o) ==
    IF o.raised \/ ~o.self.metrics.enable_metrics_tracking THEN o
    ELSE [o EXCEPT !.self.tracked = << o.ret >>]

handle_message(self0, user_input) ==
    { track_response_metrics(o)
      : o \in RouteMessage([StartSession(self0) EXCEPT !.tracked = << >>], user_input) }

\* `last` before any call
NoCall ==
    [ op |-> "none", input |-> "", trace |-> << >>, response |-> "", raised |-> FALSE,
      tracked |-> << >> ]

\* the metrics attributes after __init__: session_start_time is None
NewMetrics(enable_metrics_tracking) ==
    [ enable_metrics_tracking |-> enable_metrics_tracking, session_start_time |-> FALSE ]

\* a handler after __init__, as the second handler of a comparison
NewHandler(enable_metrics_tracking) ==
    [ context_manager |-> NewContextManager, analysis_results |-> << >>, last |-> NoCall,
      metrics |-> NewMetrics(enable_metrics_tracking) ]

\* the handler of the variables, and the second handler, as objects
Handler(cm, results, scorer_object, metrics_attributes) ==
    [ cm |-> cm, analysis_results |-> results, scorer |-> scorer_object, trace |-> << >>,
      metrics |-> metrics_attributes, tracked |-> << >> ]

\* what a call leaves in `last`
LastCall(user_input, o) ==
    [ op |-> "handle_message", input |-> user_input, trace |-> o.self.trace,
      response |-> o.ret, raised |-> o.raised, tracked |-> o.self.tracked ]

(***************************************************************************)
(* Inputs of the scoring run                                               *)
(***************************************************************************)
\* an optional dict entry: << >> when the key is missing, <<v>> when present
CountOpts == {<< >>} \cup {<<n>> : n \in 0..MaxCount}
DarkSkinOpts == {<< >>, <<Rat(-5, 100)>>, <<Rat(10, 100)>>, <<Rat(30, 100)>>}
MinorityOpts == {<< >>, <<Rat(20, 100)>>}
DatasetDiversityOpts == {<< >>, <<"Medium">>, <<"high">>}
ValidationDiversityOpts == {<< >>, <<"HIGH">>, <<"unknown">>}

DatasetKeys ==
    {"total_datasets", "datasets_with_race_labels", "avg_dark_skin_proportion",
     "avg_minority_representation", "geographic_diversity"}

\* the scenario of the specification: 2 of 10 datasets labelled, 10% dark skin
ScenarioDataset ==
    [summary |-> [total_datasets |-> 10, datasets_with_race_labels |-> 2,
                  avg_dark_skin_proportion |-> Rat(10, 100),
                  geographic_diversity |-> "high"]]

DatasetFindings ==
    {EmptyDict, ScenarioDataset} \cup
    { [summary |-> MkDict(DatasetKeys,
                          [total_datasets |-> t, datasets_with_race_labels |-> w,
                           avg_dark_skin_proportion |-> d,
                           avg_minority_representation |-> m,
                           geographic_diversity |-> g])] :
      t \in CountOpts, w \in CountOpts, d \in DarkSkinOpts, m \in MinorityOpts,
      g \in DatasetDiversityOpts }

SubgroupFindings ==
    {EmptyDict} \cup
    { MkDict({"summary", "no_subgroup_reporting"},
             [summary |-> << MkDict({"total_studies", "studies_with_subgroup_metrics"},
                                    [total_studies |-> t,
                                     studies_with_subgroup_metrics |-> w]) >>,
              no_subgroup_reporting |-> n]) :
      t \in CountOpts, w \in CountOpts, n \in CountOpts }

MitigationKeys ==
    {"total_studies", "studies_with_fairness_methods", "studies_with_external_validation"}

MitigationFindings ==
    {EmptyDict} \cup
    { [summary    |-> MkDict(MitigationKeys,
                             [total_studies |-> t, studies_with_fairness_methods |-> f,
                              studies_with_external_validation |-> e]),
       validation |-> MkDict({"geographic_diversity"}, [geographic_diversity |-> g])] :
      t \in CountOpts, f \in CountOpts, e \in CountOpts, g \in ValidationDiversityOpts }

\* a few findings of the other two topics that each varied topic is combined with
DatasetBase ==
    { EmptyDict, ScenarioDataset,
      [summary |-> [total_datasets |-> 1, datasets_with_race_labels |-> 1,
                    avg_dark_skin_proportion |-> Rat(30, 100),
                    geographic_diversity |-> "high"]] }

SubgroupBase ==
    { EmptyDict,
      [summary |-> [total_studies |-> 1, studies_with_subgroup_metrics |-> 1]],
      [summary |-> [total_studies |-> 3, studies_with_subgroup_metrics |-> 2]] }

MitigationBase ==
    { EmptyDict,
      [summary    |-> [total_studies |-> 1, studies_with_fairness_methods |-> 1,
                       studies_with_external_validation |-> 1],
       validation |-> [geographic_diversity |-> "high"]],
      [summary    |-> [total_studies |-> 2, studies_with_fairness_methods |-> 1,
                       studies_with_external_validation |-> 0],
       validation |-> [geographic_diversity |-> "medium"]] }

ScoringInputs ==
    (DatasetFindings \X SubgroupBase \X MitigationBase)
    \cup (DatasetBase \X SubgroupFindings \X MitigationBase)
    \cup (DatasetBase \X SubgroupBase \X MitigationFindings)

\* weight tables: the default with its last entry moved, and tables lacking dimensions
WithLastWeight(r) == [SCORE_WEIGHTS EXCEPT !["external_validation"] = r]

WeightArgs ==
    { << >>, <<EmptyDict>>, <<SCORE_WEIGHTS>>,
      <<WithLastWeight(Rat(95, 1000))>>,        \* sums to 0.995
      <<WithLastWeight(Rat(85, 1000))>>,        \* sums to 0.985
      <<WithLastWeight(Rat(115, 1000))>>,       \* sums to 1.015
      <<[race_label_availability |-> Rat(1, 2), dark_skin_representation |-> Rat(1, 2)]>>,
      <<[race_label_availability |-> Rat(15, 100), subgroup_metrics |-> Rat(20, 100)]>> }

ThresholdArgs == { << >>, <<R0>>, <<Rat(67, 1000)>> }

(***************************************************************************)
(* The scoring run: BiasScorer(weights, threshold), then one               *)
(* compute_bias_score call on the scorer that was built                    *)
(***************************************************************************)
InitScorer ==
    /\ pc = "args"
    /\ in_weights \in WeightArgs
    /\ in_threshold \in ThresholdArgs
    /\ in_findings = << >>
    /\ scorer = << >>
    /\ score_results = << >>
    /\ context_manager = NewContextManager
    /\ analysis_results = << >>
    /\ last = NoCall
    /\ metrics = NewMetrics(TRUE)
    /\ twin = NewHandler(TRUE)

Construct ==
    /\ pc = "args"
    /\ scorer' = BiasScorerInit(in_weights, in_threshold)
    /\ pc' = IF scorer' = << >> THEN "rejected" ELSE "built"
    /\ UNCHANGED <<in_weights, in_threshold, in_findings, score_results>>
    /\ UNCHANGED handler_vars

ComputeBiasScore ==
    /\ pc = "built"
    /\ \E f \in ScoringInputs :
          /\ in_findings' = f
          /\ score_results' = << compute_bias_score(scorer[1], f[1], f[2], f[3]) >>
    /\ pc' = "scored"
    /\ UNCHANGED <<in_weights, in_threshold, scorer>>
    /\ UNCHANGED handler_vars

NextScorer == Construct \/ ComputeBiasScore

SpecScorer == InitScorer /\ [][NextScorer]_vars

(***************************************************************************)
(* The conversation: a handler built with the default scorer, then         *)
(* handle_message and reset calls in any order                             *)
(***************************************************************************)
Utterances ==
    { "I want to analyze dermatology",
      "pathology of the eye",
      "pulmonology",
      "not yet, cardiology later",
      "hello",
      "yes",
      "Sure",
      "all of them",
      "wait, all of cardiology",
      "analyze radiology",
      "show me papers that address this",
      "what mitigation methods exist",
      "tell me more about the dataset",
      "performance gap",
      "skin cancer in the last 5 years",
      "recent pneumonia",
      "how can i study the papers on known mitigation methods" }

\* the calls made since construction or the last reset: each appends one user message
UserTurns(cm) ==
    Cardinality({ i \in 1..Len(cm.conversation_history) :
                    cm.conversation_history[i].role = "user" })

Init ==
    /\ pc = "handler"
    /\ in_weights = <<SCORE_WEIGHTS>>
    /\ in_threshold = <<BIAS_SCORE_THRESHOLD>>
    /\ in_findings = << >>
    /\ scorer = HandlerScorer
    /\ score_results = << >>
    /\ context_manager = NewContextManager
    /\ analysis_results = << >>
    /\ last = NoCall
    /\ metrics = NewMetrics(TRUE)
    /\ twin = NewHandler(TRUE)

HandleMessage(user_input) ==
    /\ pc = "handler"
    /\ UserTurns(context_manager) < MaxTurns
    /\ \E o \in handle_message(Handler(context_manager, analysis_results, scorer[1],
                                        metrics), user_input) :
          /\ context_manager' = o.self.cm
          /\ analysis_results' = o.self.analysis_results
          /\ metrics' = o.self.metrics
          /\ last' = LastCall(user_input, o)
    /\ UNCHANGED <<pc, scorer, twin>>
    /\ UNCHANGED scoring_vars

\* variant: the context is renewed but the stored analysis is kept
Reset_KeepsAnalysis ==
    /\ pc = "handler"
    /\ context_manager' = NewContextManager
    /\ analysis_results' = analysis_results
    /\ last' = [ op |-> "reset", input |-> "", trace |-> << >>, response |-> "",
                 raised |-> FALSE, tracked |-> << >> ]
    /\ UNCHANGED <<pc, scorer, metrics, twin>>
    /\ UNCHANGED scoring_vars

Reset ==
    /\ pc = "handler"
    /\ context_manager' = NewContextManager
    /\ analysis_results' = << >>
    /\ last' = [ op |-> "reset", input |-> "", trace |-> << >>, response |-> "",
                 raised |-> FALSE, tracked |-> << >> ]
    /\ UNCHANGED <<pc, scorer, metrics, twin>>
    /\ UNCHANGED scoring_vars

Next ==
    \/ \E user_input \in Utterances : HandleMessage(user_input)
    \/ Reset

Spec == Init /\ [][Next]_vars

(***************************************************************************)
(* Properties of the scoring run                                           *)
(***************************************************************************)
Scored == pc = "scored"
Result == score_results[1]
DatasetIn == in_findings[1]
SubgroupIn == in_findings[2]
MitigationIn == in_findings[3]

\* a summary field of a finding is present
HasField(finding, key) ==
    "summary" \in DOMAIN finding /\ key \in DOMAIN finding["summary"]

\* the total count of a finding is 0 or missing
NoTotal(finding, key) == ~HasField(finding, key) \/ finding["summary"][key] = 0

InUnitInterval(r) == RLe(R0, r) /\ RLe(r, R1)

Clamp01(r) == IF RLt(r, R0) THEN R0 ELSE IF RLt(R1, r) THEN R1 ELSE r

\* C1: constructing a BiasScorer with a weight table succeeds if and only if the
\* weights of the table sum to within 0.01 of 1.0; every other table, the empty
\* table included, is rejected and no scorer is produced.
C1_ConstructionIffWithinTolerance ==
    (pc # "args" /\ in_weights # << >>) =>
        ( scorer # << >> <=>
          RLe(RAbs(RSub(SumValues(in_weights[1]), R1)), Rat(1, 100)) )

\* C2 (as stated): the score field equals the sum over the six dimensions of
\* breakdown[d] * weight[d].
C2_ScoreEqualsWeightedSum ==
    Scored => Result.score = WeightedSum(Dimensions, Result.breakdown, scorer[1].weights)

\* C2 (amended): the score field is the weighted sum of the breakdown rounded to
\* three decimals: a multiple of 0.001 at most 0.0005 away from the sum; the
\* scenario of the specification (race labels 0.8, dark skin 0.6, nothing else,
\* default weights) scores 0.27.
C2_ScoreIsRoundedWeightedSum ==
    Scored =>
        LET sum == WeightedSum(Dimensions, Result.breakdown, scorer[1].weights)
            thousandths == RMul(Result.score, RInt(1000))
        IN  /\ thousandths[2] = 1
            /\ RLe(RAbs(RSub(Result.score, sum)), Rat(1, 2000))
            /\ ( ( /\ scorer[1].weights = SCORE_WEIGHTS
                   /\ Result.breakdown["race_label_availability"] = Rat(8, 10)
                   /\ Result.breakdown["dark_skin_representation"] = Rat(6, 10)
                   /\ \A i \in 3..6 : Result.breakdown[Dimensions[i]] = R0 )
                 => Result.score = Rat(27, 100) )

\* a scored state whose weighted sum is not a multiple of 0.001, so that rounding acted
C2_Witness ==
    /\ Scored
    /\ RMul(WeightedSum(Dimensions, Result.breakdown, scorer[1].weights), RInt(1000))[2] # 1

\* C3: for findings with non-negative counts each of the six component scores of
\* the breakdown lies in [0,1].
C3_BreakdownInUnitInterval ==
    Scored => \A i \in 1..6 : InUnitInterval(Result.breakdown[Dimensions[i]])

\* C4: a ratio-based dimension whose total count is 0 or missing scores exactly
\* 1.0, whatever the other fields of the findings are.
C4_ZeroTotalScoresOne ==
    Scored =>
        /\ NoTotal(DatasetIn, "total_datasets")
              => Result.breakdown["race_label_availability"] = R1
        /\ NoTotal(SubgroupIn, "total_studies")
              => Result.breakdown["subgroup_metrics"] = R1
        /\ NoTotal(MitigationIn, "total_studies")
              => /\ Result.breakdown["fairness_method_coverage"] = R1
                 /\ Result.breakdown["external_validation"] = R1

\* a zero total together with a positive with-count, scored 1.0
C4_Witness ==
    /\ Scored
    /\ HasField(DatasetIn, "total_datasets")
    /\ DatasetIn["summary"]["total_datasets"] = 0
    /\ HasField(DatasetIn, "datasets_with_race_labels")
    /\ DatasetIn["summary"]["datasets_with_race_labels"] > 0
    /\ Result.breakdown["race_label_availability"] = R1

\* C5: in every ScoreResult flagged is true if and only if the score field is
\* greater than or equal to the threshold field (stated for the results whose
\* component scores all lie in [0,1]).
C5_FlaggedIffScoreAtLeastThreshold ==
    (Scored /\ \A i \in 1..6 : InUnitInterval(Result.breakdown[Dimensions[i]]))
        => (Result.flagged <=> RLe(Result.threshold, Result.score))

\* rank of dimension i: how many dimensions precede it when sorted by descending
\* score with equal scores in declaration order
RankOf(i, breakdown) ==
    Cardinality({ j \in 1..6 :
        \/ RLt(breakdown[Dimensions[i]], breakdown[Dimensions[j]])
        \/ (breakdown[Dimensions[j]] = breakdown[Dimensions[i]] /\ j < i) })

IndexOf(dimension) == CHOOSE i \in 1..6 : Dimensions[i] = dimension

\* C6: the drivers are exactly the dimensions among the three highest-scoring
\* ones whose score exceeds 0.5, in descending score order, equal scores in
\* declaration order; at most three, and never a dimension ranked fourth or lower.
C6_DriversAreTopThreeAboveHalf ==
    Scored =>
        LET b == Result.breakdown
            d == Result.drivers
        IN  /\ Len(d) <= 3
            /\ { d[k].dimension : k \in 1..Len(d) }
                 = { Dimensions[i] : i \in { j \in 1..6 :
                         RankOf(j, b) < 3 /\ RLt(Rat(1, 2), b[Dimensions[j]]) } }
            /\ \A k \in 1..Len(d), l \in 1..Len(d) :
                  k < l => RankOf(IndexOf(d[k].dimension), b) < RankOf(IndexOf(d[l].dimension), b)

\* three drivers two of which tie, and a fourth dimension above 0.5 that is no driver
C6_Witness ==
    /\ Scored
    /\ Len(Result.drivers) = 3
    /\ Result.breakdown[Result.drivers[2].dimension] = Result.breakdown[Result.drivers[3].dimension]
    /\ RLt(Result.breakdown[Result.drivers[2].dimension], Result.breakdown[Result.drivers[1].dimension])
    /\ \E i \in 1..6 :
          /\ RLt(Rat(1, 2), Result.breakdown[Dimensions[i]])
          /\ \A k \in 1..3 : Result.drivers[k].dimension # Dimensions[i]

\* the evidence count of C7, read off the findings
EvidenceCount ==
    (IF HasField(DatasetIn, "total_datasets") THEN DatasetIn["summary"]["total_datasets"] ELSE 0)
    + (IF HasField(SubgroupIn, "total_studies") THEN SubgroupIn["summary"]["total_studies"] ELSE 0)
    + (IF HasField(MitigationIn, "total_studies") THEN MitigationIn["summary"]["total_studies"] ELSE 0)

\* C7: confidence is 'high' exactly when datasets + subgroup studies + mitigation
\* studies is at least 2, 'medium' exactly when it is above 0 and below 2, and
\* 'low' exactly when it is 0.
C7_ConfidenceFromEvidenceCount ==
    Scored =>
        /\ Result.confidence = "high"   <=> EvidenceCount >= 2
        /\ Result.confidence = "medium" <=> (EvidenceCount > 0 /\ EvidenceCount < 2)
        /\ Result.confidence = "low"    <=> EvidenceCount = 0

\* exactly two sources, rated high, in a result that is not flagged
C7_Witness ==
    /\ Scored
    /\ EvidenceCount = 2
    /\ Result.confidence = "high"
    /\ ~Result.flagged

\* C8: the dark-skin score uses avg_dark_skin_proportion when present (0 at or
\* above the 0.25 target, else (0.25 - actual)/0.25 clamped to [0,1]) and ignores
\* the minority metric; only without it the same formula is applied to
\* avg_minority_representation; without both the score is 1.0.
C8_DarkSkinScore ==
    Scored =>
        LET quarter == Rat(1, 4)
            gap(actual) == IF RLe(quarter, actual) THEN R0
                           ELSE Clamp01(RDiv(RSub(quarter, actual), quarter))
            score == Result.breakdown["dark_skin_representation"]
        IN  IF HasField(DatasetIn, "avg_dark_skin_proportion")
            THEN /\ score = gap(DatasetIn["summary"]["avg_dark_skin_proportion"])
                 /\ DatasetIn["summary"]["avg_dark_skin_proportion"] = Rat(1, 10)
                       => score = Rat(6, 10)
            ELSE IF HasField(DatasetIn, "avg_minority_representation")
            THEN score = gap(DatasetIn["summary"]["avg_minority_representation"])
            ELSE score = R1

\* both metrics present and different: 10% dark skin scores 0.6, the minority metric ignored
C8_Witness ==
    /\ Scored
    /\ HasField(DatasetIn, "avg_dark_skin_proportion")
    /\ HasField(DatasetIn, "avg_minority_representation")
    /\ DatasetIn["summary"]["avg_dark_skin_proportion"] = Rat(1, 10)
    /\ DatasetIn["summary"]["avg_minority_representation"] = Rat(1, 5)
    /\ Result.breakdown["dark_skin_representation"] = Rat(6, 10)

(***************************************************************************)
(* Properties of the conversation (Spec)                                   *)
(***************************************************************************)
\* a step that is one handle_message call: it appends exactly one user message
HandleStep ==
    /\ last'.op = "handle_message"
    /\ UserTurns(context_manager') = UserTurns(context_manager) + 1

ProviderNames ==
    <<"analyze_dataset_composition", "analyze_subgroup_performance",
      "analyze_mitigation_validation">>

\* the provider calls of a trace, in the order they were made
ProviderCalls(trace) ==
    LET calls == SelectSeq(trace, LAMBDA e : InList(e.ev, ProviderNames))
    IN  [i \in 1..Len(calls) |-> calls[i].ev]

Entered(trace, name) == \E i \in 1..Len(trace) : trace[i].ev = name

IsPrefix(a, b) == Len(a) <= Len(b) /\ SubSeq(b, 1, Len(a)) = a

EmptyContext == context_manager.context = NewContextManager.context

FieldNames == { FieldKeywords[i][1] : i \in 1..Len(FieldKeywords) }

\* the utterances that contain a deferral token
DeferringUtterances == { u \in Utterances : AnyIn(DeferralTokens, Lower(u)) }

\* the utterances that are an affirmation, whatever the case of their letters
AffirmingUtterances == { u \in Utterances : InList(Lower(u), Affirmations) }

\* per utterance, the taxonomy fields whose name it contains
NamedFields == [ u \in Utterances |-> { f \in FieldNames : Contains(f, Lower(u)) } ]

\* per utterance, the first field in taxonomy order one of whose keywords it contains
FirstKeywordField ==
    [ u \in Utterances |->
        { FieldKeywords[i][1] : i \in
            { i \in 1..Len(FieldKeywords) :
                /\ AnyIn(FieldKeywords[i][2], Lower(u))
                /\ \A j \in 1..(i - 1) : ~AnyIn(FieldKeywords[j][2], Lower(u)) } } ]

\* the case of C9: no AnalysisResult, a field known after the context update of this
\* utterance (it was known before, or the utterance holds a field keyword), and none
\* of the deferral tokens in the utterance
ProactiveCase ==
    /\ HandleStep
    /\ analysis_results = << >>
    /\ \/ context_manager.context.medical_field # << >>
       \/ FirstKeywordField[last'.input] # {}
    /\ last'.input \notin DeferringUtterances

AfterMitigationOffer(cm) ==
    LET h == cm.conversation_history
    IN  /\ h # << >>
        /\ h[Len(h)].role = "assistant"
        /\ Contains("mitigation", Lower(h[Len(h)].content))

\* C10: when an AnalysisResult exists and the utterance is one of the affirmations
\* (yes, y, yeah, sure, please, in any case of letters) following an assistant
\* message that contains "mitigation", handle_message enters the mitigation
\* recommendations, makes no analysis-provider call and leaves the AnalysisResult
\* as it was
C10_AffirmationRoutesToMitigation ==
    [][ ( /\ HandleStep
          /\ analysis_results # << >>
          /\ last'.input \in AffirmingUtterances
          /\ AfterMitigationOffer(context_manager) )
        => /\ Entered(last'.trace, "_provide_mitigation_recommendations")
           /\ ~Entered(last'.trace, "_perform_analysis")
           /\ ProviderCalls(last'.trace) = << >>
           /\ analysis_results' = analysis_results
      ]_vars

\* "yes" or "Sure" was answered with recommendations right after an assistant
\* message that says "mitigation", with an AnalysisResult in place
C10_Witness ==
    LET h == context_manager.conversation_history
    IN  /\ last.op = "handle_message"
        /\ last.input \in AffirmingUtterances
        /\ analysis_results # << >>
        /\ Entered(last.trace, "_provide_mitigation_recommendations")
        /\ ~last.raised
        /\ StartsWith(last.response, "Based on the identified gaps in ")
        /\ \E i \in 1..(Len(h) - 1) :
              /\ h[i].role = "assistant"
              /\ Contains("mitigation", Lower(h[i].content))
              /\ h[i + 1] = [role |-> "user", content |-> last.input]
              /\ i + 1 >= Len(h) - 1

\* C11: a reset leaves the context without medical field, condition, time range,
\* bias aspects and history, has_sufficient_context false and no AnalysisResult; and a
\* handle_message call makes an analysis-provider call only when the medical field is
\* set at its end, by an utterance since the reset (a keyword of this one or an
\* earlier one) or by the field extraction of this call
C11_ResetClearsAndBlocksAnalysis ==
    [][ /\ last'.op = "reset" =>
             /\ context_manager'.context.medical_field = << >>
             /\ context_manager'.context.specific_condition = << >>
             /\ context_manager'.context.time_range = << >>
             /\ context_manager'.context.bias_aspects = << >>
             /\ context_manager'.conversation_history = << >>
             /\ ~has_sufficient_context(context_manager')
             /\ analysis_results' = << >>
        /\ (HandleStep /\ ProviderCalls(last'.trace) # << >>) =>
             /\ context_manager'.context.medical_field # << >>
             /\ \/ context_manager.context.medical_field # << >>
                \/ FirstKeywordField[last'.input] # {}
                \/ Entered(last'.trace, "_extract_medical_field_llm")
      ]_vars

\* a reset was the last call, and it left the handler as a new one
C11_Witness ==
    /\ last.op = "reset"
    /\ context_manager = NewContextManager
    /\ analysis_results = << >>

\* the words _is_mitigation_request and _is_analysis_request look for
MitigationVocabulary ==
    <<"mitigation", "method", "solution", "address", "reduce", "fix", "improve">>

AnalysisVocabulary ==
    <<"analyze", "find", "identify", "look at", "examine", "check", "help", "can you",
      "areas", "bias">>

\* the utterances that are a paper-request and also hold mitigation or analysis words
MixedPaperUtterances ==
    { u \in Utterances :
        /\ IsPaperRequest(Lower(u))
        /\ AnyIn(MitigationVocabulary, Lower(u)) \/ AnyIn(AnalysisVocabulary, Lower(u)) }

\* C12: a paper-request that also holds mitigation or analysis vocabulary is in no
\* state routed to the mitigation recommendations, and when an AnalysisResult exists
\* it is answered by the paper answer without an analysis-provider call
C12_PaperRequestTakesPrecedence ==
    [][ (HandleStep /\ last'.input \in MixedPaperUtterances) =>
            /\ ~Entered(last'.trace, "_provide_mitigation_recommendations")
            /\ analysis_results # << >> =>
                  /\ Entered(last'.trace, "_answer_about_papers")
                  /\ ProviderCalls(last'.trace) = << >>
      ]_vars

\* a provider call of the trace raised
ProviderRaised(trace) ==
    \E i \in 1..Len(trace) : InList(trace[i].ev, ProviderNames) /\ trace[i].out = OutRaised

\* C13: when no AnalysisResult exists and a provider call of the perform-analysis
\* transition raises, handle_message returns the apology, no AnalysisResult is stored,
\* and the raising call is the last thing the call does: no further provider call and
\* no retry
C13_ProviderExceptionGivesApology ==
    [][ (HandleStep /\ analysis_results = << >> /\ ProviderRaised(last'.trace)) =>
            /\ ~last'.raised
            /\ last'.response = Apology("provider failure")
            /\ analysis_results' = << >>
            /\ InList(last'.trace[Len(last'.trace)].ev, ProviderNames)
            /\ last'.trace[Len(last'.trace)].out = OutRaised
            /\ IsPrefix(ProviderCalls(last'.trace), ProviderNames)
      ]_vars

\* the subgroup call raised after the dataset call had returned its findings
C13_Witness ==
    /\ last.op = "handle_message"
    /\ ProviderRaised(last.trace)
    /\ ProviderCalls(last.trace) = SubSeq(ProviderNames, 1, 2)
    /\ last.response = Apology("provider failure")
    /\ analysis_results = << >>

\* a provider call of the trace returned findings that carry an error field
ProviderReportedError(trace) ==
    \E i \in 1..Len(trace) :
        InList(trace[i].ev, ProviderNames) /\ trace[i].out = OutFindings(ErrorDataset)

\* C14: when a provider call returns findings with an error field, the transition is
\* treated as a provider failure: handle_message returns the apology and no
\* AnalysisResult is stored
C14_ErrorFieldIsProviderFailure ==
    [][ (HandleStep /\ analysis_results = << >> /\ ProviderReportedError(last'.trace)) =>
            /\ StartsWith(last'.response, "I encountered an error while analyzing")
            /\ analysis_results' = << >>
      ]_vars

\* C15: every handle_message call returns a response; no failure of a collaborator
\* leaves handle_message as an exception
C15_NoExceptionEscapes == last.op = "handle_message" => ~last.raised

(***************************************************************************)
(* Two handlers side by side: the same utterances and the same             *)
(* collaborator outputs, metrics tracking enabled in one and disabled in   *)
(* the other                                                               *)
(***************************************************************************)

\* the call an event records, without what came back
CallOf(event) == [event EXCEPT !.out = ""]

\* the collaborators answered both runs alike: wherever the two traces made the
\* same call after the same past, the same output came back
SameOutputs(trace_a, trace_b) ==
    \A i \in 1..Len(trace_a) :
        ( /\ i <= Len(trace_b)
          /\ SubSeq(trace_a, 1, i - 1) = SubSeq(trace_b, 1, i - 1)
          /\ CallOf(trace_a[i]) = CallOf(trace_b[i]) )
        => trace_a[i].out = trace_b[i].out

\* the second handler after a call
TwinAfter(user_input, t) ==
    [ context_manager |-> t.self.cm, analysis_results |-> t.self.analysis_results,
      last |-> LastCall(user_input, t), metrics |-> t.self.metrics ]

InitMetrics ==
    /\ pc = "metrics pair"
    /\ in_weights = <<SCORE_WEIGHTS>>
    /\ in_threshold = <<BIAS_SCORE_THRESHOLD>>
    /\ in_findings = << >>
    /\ scorer = HandlerScorer
    /\ score_results = << >>
    /\ context_manager = NewContextManager
    /\ analysis_results = << >>
    /\ last = NoCall
    /\ metrics = NewMetrics(TRUE)
    /\ twin = NewHandler(FALSE)

\* handle_message on both handlers with the same utterance
HandleMessagePair(user_input) ==
    /\ pc = "metrics pair"
    /\ UserTurns(context_manager) < MaxTurns
    /\ UserTurns(twin.context_manager) < MaxTurns
    /\ \E o \in handle_message(Handler(context_manager, analysis_results, scorer[1],
                                        metrics), user_input),
          t \in handle_message(Handler(twin.context_manager, twin.analysis_results,
                                        scorer[1], twin.metrics), user_input) :
          /\ SameOutputs(o.self.trace, t.self.trace)
          /\ context_manager' = o.self.cm
          /\ analysis_results' = o.self.analysis_results
          /\ metrics' = o.self.metrics
          /\ last' = LastCall(user_input, o)
          /\ twin' = TwinAfter(user_input, t)
    /\ UNCHANGED <<pc, scorer>>
    /\ UNCHANGED scoring_vars

NextMetrics == \E user_input \in Utterances : HandleMessagePair(user_input)

SpecMetrics == InitMetrics /\ [][NextMetrics]_vars

\* C16: a handler with metrics tracking and one without, fed the same utterances
\* and the same collaborator outputs, enter the same methods and make the same
\* calls in every handle_message, return the same response or both raise, and
\* hold the same context, history and stored analysis after every call
C16_MetricsNeverInfluence ==
    pc = "metrics pair" =>
        /\ twin.last.trace = last.trace
        /\ twin.last.response = last.response
        /\ twin.last.raised = last.raised
        /\ twin.context_manager = context_manager
        /\ twin.analysis_results = analysis_results

\* the tracked handler handed a response to its tracker after a mitigation answer on
\* a stored analysis, the other handler tracked nothing
C16_Witness ==
    /\ pc = "metrics pair"
    /\ metrics.session_start_time
    /\ ~twin.metrics.enable_metrics_tracking
    /\ last.op = "handle_message"
    /\ last.tracked = << last.response >>
    /\ twin.last.tracked = << >>
    /\ analysis_results # << >>
    /\ Entered(last.trace, "_provide_mitigation_recommendations")
    /\ UserTurns(context_manager) = 2

(***************************************************************************)
(* Two handlers side by side that differ only in the text the narrative    *)
(* generator returns for prose                                             *)
(***************************************************************************)

\* the generate_response calls for prose (temperature 0.7); the one call
\* _extract_medical_field_llm makes (temperature 0.3) asks for a field name
IsProseCall(trace, i) ==
    /\ trace[i].ev = "generate_response"
    /\ ~(i > 1 /\ trace[i - 1].ev = "_extract_medical_field_llm")

ReferenceProse == "The evidence base is thin."

\* the run the others are compared with: every prose call returned the reference text
ReferenceRun(trace) ==
    \A i \in 1..Len(trace) :
        IsProseCall(trace, i) => trace[i].out \in {OutRaised, OutText(ReferenceProse)}

\* a trace without the text of the prose that came back
ControlTrace(trace) ==
    [ i \in 1..Len(trace) |->
        IF IsProseCall(trace, i) /\ trace[i].out # OutRaised
        THEN [trace[i] EXCEPT !.out = "returned prose"]
        ELSE trace[i] ]

\* what a call did, step by step: the methods entered and the collaborator calls
\* with their arguments
Actions(trace) == [ i \in 1..Len(trace) |-> CallOf(trace[i]) ]

InitProse ==
    /\ pc = "prose pair"
    /\ in_weights = <<SCORE_WEIGHTS>>
    /\ in_threshold = <<BIAS_SCORE_THRESHOLD>>
    /\ in_findings = << >>
    /\ scorer = HandlerScorer
    /\ score_results = << >>
    /\ context_manager = NewContextManager
    /\ analysis_results = << >>
    /\ last = NoCall
    /\ metrics = NewMetrics(TRUE)
    /\ twin = NewHandler(TRUE)

\* handle_message on both handlers with the same utterance; the collaborators
\* answer both alike except for the text of the prose
HandleMessageProse(user_input) ==
    /\ pc = "prose pair"
    /\ UserTurns(context_manager) < MaxTurns
    /\ UserTurns(twin.context_manager) < MaxTurns
    /\ \E o \in handle_message(Handler(context_manager, analysis_results, scorer[1],
                                        metrics), user_input),
          t \in handle_message(Handler(twin.context_manager, twin.analysis_results,
                                        scorer[1], twin.metrics), user_input) :
          /\ ReferenceRun(o.self.trace)
          /\ SameOutputs(ControlTrace(o.self.trace), ControlTrace(t.self.trace))
          /\ context_manager' = o.self.cm
          /\ analysis_results' = o.self.analysis_results
          /\ metrics' = o.self.metrics
          /\ last' = LastCall(user_input, o)
          /\ twin' = TwinAfter(user_input, t)
    /\ UNCHANGED <<pc, scorer>>
    /\ UNCHANGED scoring_vars

NextProse == \E user_input \in Utterances : HandleMessageProse(user_input)

SpecProse == InitProse /\ [][NextProse]_vars

\* C17: two runs that differ only in the text returned for prose enter the same
\* methods and make the same collaborator calls in every handle_message, and end
\* every call with the same context fields and both with or both without a
\* stored analysis
C17_ProseNeverDecides ==
    pc = "prose pair" =>
        /\ Actions(twin.last.trace) = Actions(last.trace)
        /\ twin.context_manager.context = context_manager.context
        /\ (twin.analysis_results = << >>) <=> (analysis_results = << >>)

\* what generate_response gave back when the secondary extraction found no field:
\* a raise, or a text that is not one of the seven field names
MissedExtractions ==
    { OutOfText(o) : o \in { x \in ExtractionOutcomes : extract_medical_field_llm(x) = << >> } }

\* the call tried the secondary extraction and it found no field
ExtractionMissed(trace) ==
    \E i \in 1..(Len(trace) - 1) :
        /\ trace[i].ev = "_extract_medical_field_llm"
        /\ trace[i + 1].ev = "generate_response"
        /\ trace[i + 1].out \in MissedExtractions

\* C18: a handle_message call that starts without a medical field, finds no field
\* keyword in the utterance and gets no field from the secondary extraction (the
\* extraction call may raise) returns the clarifying question, calls no analysis
\* provider, stores no analysis and leaves medical_field, specific_condition,
\* time_range and bias_aspects as they were before the call
C18_ExtractionMissLeavesContext ==
    [][ ( /\ HandleStep
          /\ context_manager.context.medical_field = << >>
          /\ FirstKeywordField[last'.input] = {}
          /\ ExtractionMissed(last'.trace) )
        => /\ last'.response = ClarifyingQuestion
           /\ ~last'.raised
           /\ ProviderCalls(last'.trace) = << >>
           /\ analysis_results' = << >>
           /\ context_manager'.context = context_manager.context ]_vars

\* per utterance, the taxonomy fields it asks to analyse: it holds a word
\* _is_analysis_request looks for, is no paper-request, and names the field
RequestedFields ==
    [ u \in Utterances |->
        IF AnyIn(AnalysisVocabulary, Lower(u)) /\ ~IsPaperRequest(Lower(u))
        THEN NamedFields[u] ELSE {} ]

\* the scopes the analysis providers were called with
ProviderScopes(trace) ==
    { trace[i].scope : i \in { j \in 1..Len(trace) : InList(trace[j].ev, ProviderNames) } }

\* C19: with an analysis stored for one field, a request to analyse another
\* taxonomy field runs _perform_analysis with the providers called for the new
\* field (the scope is the field, followed by the condition when one is known),
\* and unless a provider raises the stored analysis is afterwards one whose scope
\* is that of the new field
C19_NewFieldSupersedesAnalysis ==
    [][ \A f \in FieldNames :
          ( /\ HandleStep
            /\ analysis_results # << >>
            /\ f \in RequestedFields[last'.input]
            /\ context_manager.context.medical_field # << f >> )
          => /\ Entered(last'.trace, "_perform_analysis")
             /\ ProviderScopes(last'.trace) # {}
             /\ \A scope \in ProviderScopes(last'.trace) : StartsWith(scope, f)
             /\ ~ProviderRaised(last'.trace)
                  => /\ analysis_results' # << >>
                     /\ StartsWith(analysis_results'[1].scope, f) ]_vars

\* the values medical_field may hold: unset, or one of the seven taxonomy fields
FieldVocabulary == { << >> } \cup { << f >> : f \in FieldNames }

\* the utterances that hold keywords of more than one field
MultiFieldUtterances ==
    { u \in Utterances :
        Cardinality({ i \in 1..Len(FieldKeywords) : AnyIn(FieldKeywords[i][2], Lower(u)) }) > 1 }

\* C20: medical_field is always unset or one of the seven taxonomy fields; a
\* secondary extraction whose output is not one of the seven names (or whose call
\* raises) leaves medical_field unset; and a handle_message call that starts
\* without a field and whose utterance holds keywords of fields sets it to the
\* first of those fields in the order of the taxonomy
C20_FieldVocabulary ==
    /\ [](context_manager.context.medical_field \in FieldVocabulary)
    /\ [][ /\ (HandleStep /\ ExtractionMissed(last'.trace))
                => context_manager'.context.medical_field = << >>
           /\ \A f \in FieldNames :
                ( /\ HandleStep
                  /\ context_manager.context.medical_field = << >>
                  /\ FirstKeywordField[last'.input] = {f} )
                => context_manager'.context.medical_field = << f >> ]_vars

\* after a first message without a field, whose extraction found none (the
\* clarifying question is not kept in the history), a message with keywords of two
\* fields (eye: ophthalmology, pathology) set the field to ophthalmology
C20_Witness ==
    /\ last.op = "handle_message"
    /\ last.input \in MultiFieldUtterances
    /\ last.input = "pathology of the eye"
    /\ UserTurns(context_manager) = 2
    /\ context_manager.conversation_history[1].content = "hello"
    /\ context_manager.conversation_history[2].content = last.input
    /\ context_manager.context.medical_field = << "ophthalmology" >>

\* C21: a handle_message call whose utterance holds a deferral token (wait, not
\* yet, don't, no, later), made when the field is known after update_context and no
\* analysis is stored, calls no analysis provider and leaves the analysis absent
C21_DeferralIsHonoured ==
    [][ ( /\ HandleStep
          /\ analysis_results = << >>
          /\ last'.input \in DeferringUtterances
          /\ \/ context_manager.context.medical_field # << >>
             \/ FirstKeywordField[last'.input] # {} )
        => /\ ProviderCalls(last'.trace) = << >>
           /\ analysis_results' = << >> ]_vars

\* the utterances that contain "all"
AllUtterances == { u \in Utterances : Contains("all", Lower(u)) }

\* C22: a handle_message call whose utterance holds "all" and a deferral token (so
\* the immediate analysis did not fire), made when the field is known after
\* update_context and no analysis is stored, leaves bias_aspects as exactly
\* ["all"] and runs _perform_analysis, with its first provider call, in that call
C22_AllReplacesAspects ==
    [][ ( /\ HandleStep
          /\ analysis_results = << >>
          /\ last'.input \in AllUtterances
          /\ last'.input \in DeferringUtterances
          /\ \/ context_manager.context.medical_field # << >>
             \/ FirstKeywordField[last'.input] # {} )
        => /\ context_manager'.context.bias_aspects = << "all" >>
           /\ Entered(last'.trace, "_perform_analysis")
           /\ ~Entered(last'.trace, "_default_response")
           /\ ProviderCalls(last'.trace) # << >>
           /\ ~ProviderRaised(last'.trace) => analysis_results' # << >> ]_vars

\* "performance gap" put an aspect in the context, then "wait, all of cardiology"
\* replaced it by the sentinel and the analysis of cardiology was stored
C22_Witness ==
    /\ last.op = "handle_message"
    /\ last.input = "wait, all of cardiology"
    /\ last.input \in AllUtterances \cap DeferringUtterances
    /\ UserTurns(context_manager) = 2
    /\ context_manager.conversation_history[1].content = "performance gap"
    /\ context_manager.context.bias_aspects = << "all" >>
    /\ analysis_results # << >>
    /\ analysis_results[1].scope = "cardiology"

\* a handler that knows its field, to classify the utterances as handle_message
\* does once an analysis exists
FieldKnownHandler ==
    Handler([NewContextManager EXCEPT !.context.medical_field = << "dermatology" >>],
            << >>, << >>, NewMetrics(TRUE))

\* the utterances that are no paper-, analysis- or mitigation-request and no
\* affirmation: the follow-ups and the ones that match no intent
TopicRoutedUtterances ==
    { u \in Utterances :
        /\ ~IsPaperRequest(Lower(u))
        /\ ~is_analysis_request(FieldKnownHandler, u)
        /\ ~is_mitigation_request(u)
        /\ ~InList(Lower(u), Affirmations) }

\* per utterance, the route of the topic rules in their priority
TopicOf ==
    [ u \in Utterances |->
        IF AnyIn(<<"data imbalance", "dataset", "race label">>, Lower(u))
        THEN "_answer_about_data_imbalance"
        ELSE IF AnyIn(<<"performance", "subgroup", "accuracy", "gap">>, Lower(u))
                /\ ~IsPaperRequest(Lower(u))
        THEN "_answer_about_performance"
        ELSE IF AnyIn(<<"mitigation", "fairness", "method", "solution">>, Lower(u))
        THEN "_provide_mitigation_recommendations"
        ELSE "open-ended narrative" ]

TopicMethods ==
    { "_answer_about_data_imbalance", "_answer_about_performance",
      "_provide_mitigation_recommendations", "_answer_about_papers", "_default_response" }

\* the call took the route: it entered the method of the topic, or for the
\* open-ended narrative entered none of the topic methods and called generate_response
TookRoute(trace, route) ==
    IF route = "open-ended narrative"
    THEN /\ \A m \in TopicMethods : ~Entered(trace, m)
         /\ Entered(trace, "generate_response")
    ELSE Entered(trace, route)

\* C23: once an analysis is stored, an utterance that is a follow-up or matches no
\* intent takes the route of the topic rules (dataset explainer, performance
\* explainer, mitigation recommendations, else an open-ended narrative call),
\* calls no analysis provider and leaves the stored analysis as it was
C23_TopicRouting ==
    [][ ( /\ HandleStep
          /\ analysis_results # << >>
          /\ last'.input \in TopicRoutedUtterances )
        => /\ TookRoute(last'.trace, TopicOf[last'.input])
           /\ ProviderCalls(last'.trace) = << >>
           /\ analysis_results' = analysis_results ]_vars

(***************************************************************************)
(* _is_mitigation_request on its own: utterances put together from a lead, *)
(* a keyword and a tail                                                    *)
(***************************************************************************)

Leads == { "", "how do we ", "a study to ", "show me research to ", "papers to " }

Keywords ==
    { "mitigation", "method", "solution", "address", "reduce", "fix", "improve", "discuss" }

Tails == { "", " bias", " that address bias", " in this paper", " to address the gap" }

\* str() of a Python bool
PyBool(b) == IF b THEN "True" ELSE "False"

InitMitigationRequest ==
    /\ pc = "classify"
    /\ in_weights = <<SCORE_WEIGHTS>>
    /\ in_threshold = <<BIAS_SCORE_THRESHOLD>>
    /\ in_findings = << >>
    /\ scorer = HandlerScorer
    /\ score_results = << >>
    /\ context_manager = NewContextManager
    /\ analysis_results = << >>
    /\ \E lead \in Leads, keyword \in Keywords, tail \in Tails :
          last = [NoCall EXCEPT !.input = lead \o keyword \o tail]
    /\ metrics = NewMetrics(TRUE)
    /\ twin = NewHandler(TRUE)

\* one call of _is_mitigation_request on the utterance; it reads no state
IsMitigationRequest ==
    /\ pc = "classify"
    /\ pc' = "classified"
    /\ last' = [last EXCEPT !.op = "_is_mitigation_request",
                            !.response = PyBool(is_mitigation_request(last.input))]
    /\ UNCHANGED <<scorer, context_manager, analysis_results, metrics, twin>>
    /\ UNCHANGED scoring_vars

NextMitigationRequest == IsMitigationRequest

SpecMitigationRequest == InitMitigationRequest /\ [][NextMitigationRequest]_vars

\* C24: _is_mitigation_request is true exactly for an utterance that is no
\* paper-request and holds one of mitigation, method, solution, reduce, fix,
\* improve, or holds "address" without paper, study or research
C24_OnlyAddressIsDiscounted ==
    pc = "classified" =>
        LET input_lower == Lower(last.input)
        IN  last.response =
              PyBool( /\ ~IsPaperRequest(input_lower)
                      /\ \/ AnyIn(<<"mitigation", "method", "solution", "reduce", "fix",
                                    "improve">>, input_lower)
                         \/ /\ Contains("address", input_lower)
                            /\ ~AnyIn(<<"paper", "study", "research">>, input_lower) )

\* the positions of the trace where an event of the given names stands
Positions(trace, names) == { i \in 1..Len(trace) : trace[i].ev \in names }

ProviderNameSet == { ProviderNames[i] : i \in 1..Len(ProviderNames) }

\* C25: a handle_message call that enters _perform_analysis enters it once and
\* calls the providers in the order dataset, subgroup, mitigation, each at most
\* once, with the scope of the context and its time range (5 when unset); a call
\* that raises is the last provider call; the score is computed exactly when all
\* three calls returned, after them, and only then is the analysis stored
C25_ThreeCallsThenScore ==
    [][ (HandleStep /\ Entered(last'.trace, "_perform_analysis")) =>
          LET trace  == last'.trace
              c      == context_manager'.context
              years  == IF c.time_range # << >> THEN c.time_range[1] ELSE 5
              calls  == Positions(trace, ProviderNameSet)
              scored == Positions(trace, {"compute_bias_score"})
          IN  /\ Cardinality(Positions(trace, {"_perform_analysis"})) = 1
              /\ ProviderCalls(trace) # << >>
              /\ IsPrefix(ProviderCalls(trace), ProviderNames)
              /\ \A i \in calls :
                    /\ trace[i].scope = get_scope(context_manager')
                    /\ trace[i].ev # "analyze_subgroup_performance" => trace[i].years = years
                    /\ trace[i].out = OutRaised => \A j \in calls : j <= i
              /\ scored # {} <=> (Cardinality(calls) = 3 /\ ~ProviderRaised(trace))
              /\ \A i \in scored, j \in calls : j < i
              /\ scored = {} => analysis_results' = analysis_results
              /\ scored # {} =>
                    /\ analysis_results' # << >>
                    /\ analysis_results'[1].scope = get_scope(context_manager')
                    /\ analysis_results'[1].years = years ]_vars

\* an analysis of dermatology with no time range given: three provider calls for
\* the last 5 years, the score computed after them, the result stored
C25_Witness ==
    /\ last.op = "handle_message"
    /\ ProviderCalls(last.trace) = ProviderNames
    /\ ~ProviderRaised(last.trace)
    /\ Entered(last.trace, "compute_bias_score")
    /\ context_manager.context.time_range = << >>
    /\ analysis_results # << >>
    /\ analysis_results[1].years = 5
    /\ analysis_results[1].scope = "dermatology"

\* C26: for subgroup findings with total_studies > 0 the subgroup_metrics score is
\* no_subgroup_reporting/total whenever the findings give a no_subgroup_reporting
\* count, the count 0 included (score 0), and 1 - studies_with_subgroup_metrics/total
\* only when they give none; either way clamped to [0,1]
C26_ExplicitNoReportingPreferred ==
    (Scored /\ ~NoTotal(SubgroupIn, "total_studies")) =>
        LET summary      == SubgroupIn["summary"]
            total        == summary["total_studies"]
            with_metrics == Get(summary, "studies_with_subgroup_metrics", 0)
            score        == Result.breakdown["subgroup_metrics"]
        IN  IF "no_subgroup_reporting" \in DOMAIN SubgroupIn
            THEN score = Clamp01(Rat(SubgroupIn["no_subgroup_reporting"], total))
            ELSE score = Clamp01(RSub(R1, Rat(with_metrics, total)))

WriteOnceFields == {"medical_field", "specific_condition", "time_range"}

\* per utterance, the condition and the time range its keywords name
NamedCondition == [ u \in Utterances |-> FirstMatch(ConditionKeywords, Lower(u)) ]

NamedTimeRange == [ u \in Utterances |-> ExtractTimeRange(Lower(u)) ]

\* C27: a handle_message call leaves medical_field, specific_condition and
\* time_range as they were when they held a value, whatever the utterance names
\* and whatever the secondary extraction returns; reset clears the three
C27_ContextFieldsWriteOnce ==
    [][ /\ last'.op # "reset" =>
              \A k \in WriteOnceFields :
                  context_manager.context[k] # << >>
                      => context_manager'.context[k] = context_manager.context[k]
        /\ last'.op = "reset" =>
              \A k \in WriteOnceFields : context_manager'.context[k] = << >> ]_vars

\* "skin cancer in the last 5 years" set dermatology, melanoma and 5; the later
\* "recent pneumonia" names pulmonology, pneumonia and 3 and changed none of them
C27_Witness ==
    /\ last.op = "handle_message"
    /\ UserTurns(context_manager) = 2
    /\ context_manager.conversation_history[1].content = "skin cancer in the last 5 years"
    /\ FirstKeywordField[last.input] = {"pulmonology"}
    /\ NamedCondition[last.input] = << "pneumonia" >>
    /\ NamedTimeRange[last.input] = << 3 >>
    /\ context_manager.context.medical_field = << "dermatology" >>
    /\ context_manager.context.specific_condition = << "melanoma" >>
    /\ context_manager.context.time_range = << 5 >>

\* C28: a stored analysis implies a known medical field and never has the scope
\* "medical AI"; no handle_message call clears a known field or a stored analysis;
\* and a call that reaches an analysis provider does so with the field known and
\* never with the scope "medical AI"
C28_NoBackwardMove ==
    /\ [](analysis_results # << >> =>
              /\ context_manager.context.medical_field # << >>
              /\ analysis_results[1].scope # "medical AI")
    /\ [][ HandleStep =>
              /\ context_manager.context.medical_field # << >>
                    => context_manager'.context.medical_field # << >>
              /\ analysis_results # << >> => analysis_results' # << >>
              /\ ProviderCalls(last'.trace) # << >> =>
                    /\ context_manager'.context.medical_field # << >>
                    /\ "medical AI" \notin ProviderScopes(last'.trace) ]_vars

\* with an analysis stored, "hello" was answered with the options; the field and
\* the analysis are still there
C28_Witness ==
    /\ last.op = "handle_message"
    /\ last.input = "hello"
    /\ last.response = OptionsText
    /\ ProviderCalls(last.trace) = << >>
    /\ UserTurns(context_manager) = 2
    /\ context_manager.context.medical_field # << >>
    /\ analysis_results # << >>

\* C29: whenever an analysis is stored, its scope is the scope derived from the
\* context as it is now (the medical field, and the condition when one is set)
C29_StoredScopeIsCurrentScope ==
    analysis_results # << >> => analysis_results[1].scope = get_scope(context_manager)

\* the findings and the score of every analysis run in which the three provider
\* calls returned
CompleteRuns ==
    { [ dataset_analysis    |-> p[1][1],
        subgroup_analysis   |-> p[2][1],
        mitigation_analysis |-> p[3][1],
        score_results       |-> compute_bias_score(HandlerScorer[1], p[1][1], p[2][1], p[3][1]) ]
      : p \in { q \in ProviderScenarios : \A i \in 1..3 : q[i] # << >> } }

\* the findings and the score of a stored analysis
RunOf(result) ==
    [ dataset_analysis    |-> result.dataset_analysis,
      subgroup_analysis   |-> result.subgroup_analysis,
      mitigation_analysis |-> result.mitigation_analysis,
      score_results       |-> result.score_results ]

\* C30: a handle_message call that enters _perform_analysis with an analysis
\* stored and in which a provider call raises returns the apology and leaves the
\* stored analysis exactly as it was; and a stored analysis is always the findings
\* and the score of one complete run
C30_FailedRerunKeepsResult ==
    /\ [](analysis_results # << >> => RunOf(analysis_results[1]) \in CompleteRuns)
    /\ [][ ( /\ HandleStep
             /\ analysis_results # << >>
             /\ Entered(last'.trace, "_perform_analysis")
             /\ ProviderRaised(last'.trace) )
           => /\ analysis_results' = analysis_results
              /\ last'.response = Apology("provider failure")
              /\ ~Entered(last'.trace, "compute_bias_score") ]_vars

\* the stored analysis holds the error findings of the first run; the second run
\* got dataset findings and then the subgroup call raised: nothing of it was kept
C30_Witness ==
    /\ last.op = "handle_message"
    /\ UserTurns(context_manager) = 2
    /\ Entered(last.trace, "_perform_analysis")
    /\ ProviderCalls(last.trace) = SubSeq(ProviderNames, 1, 2)
    /\ ProviderRaised(last.trace)
    /\ \E i \in 1..Len(last.trace) :
          /\ last.trace[i].ev = "analyze_dataset_composition"
          /\ last.trace[i].out = OutFindings(FoundDataset)
    /\ last.response = Apology("provider failure")
    /\ analysis_results # << >>
    /\ analysis_results[1].dataset_analysis = ErrorDataset

====
